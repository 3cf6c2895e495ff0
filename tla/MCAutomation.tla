---------------------------- MODULE MCAutomation ----------------------------
(* Small instances of EdgeAutomation for TLC. *)
EXTENDS EdgeAutomation

On == "on"
Off == "off"
Rule(id, mode, triggers, when, delays) ==
    [id |-> id, mode |-> mode, triggers |-> triggers, when |-> when, delays |-> delays]

SwitchedOff == StateTrigger(1, On, Off, 0)
StaysOff == StateTrigger(1, Any, Off, 1)
Settles == StateTrigger(1, Any, Any, 1)
Daily(policy) == TimeTrigger({2}, policy)

Sign == Rule("sign", "single", {SwitchedOff, StaysOff}, {}, <<1, 1>>)
SignEdited == Rule("sign", "restart", {SwitchedOff, Daily("catch_up_once")}, {[entity |-> 1, state |-> Off]}, <<1>>)
Chime == Rule("chime", "single", {Settles, Daily("fire_each")}, {}, <<>>)

TwoStates == {On, Off}
Edits == {{Sign}, {SignEdited}, {Chime}}
OnlyChime == {{Chime}}
=============================================================================
