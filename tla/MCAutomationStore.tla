-------------------------- MODULE MCAutomationStore --------------------------
(***************************************************************************)
(* Small instances of AutomationStore for TLC.                             *)
(***************************************************************************)
EXTENDS AutomationStore

CONSTANTS lamp, pump,   \* automations
          c1, c2,       \* configurations
          k1,           \* a draft token
          t1, t2        \* task slots
=============================================================================
