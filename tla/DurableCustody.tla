--------------------------- MODULE DurableCustody ---------------------------
(***************************************************************************)
(* What the telemetry channel promises about durable entries (REL-093,     *)
(* REL-102, REL-103), with no buffer, push, cursor or crash in it: whoever *)
(* accepts an entry owes it until it has been delivered or its loss has    *)
(* been announced.  The promise rests on the numbering of entries being    *)
(* sound; nothing is said of a behaviour in which it is not.               *)
(***************************************************************************)
VARIABLES
    accepted,    \* every durable entry taken on
    owed,        \* entries, and losses, still to be handed over
    delivered,   \* entries handed over
    announced,   \* entries whose loss was reported
    sound        \* no number has been given out twice

custody == <<accepted, owed, delivered, announced, sound>>

Init ==
    /\ accepted = {} /\ owed = {} /\ delivered = {} /\ announced = {}
    /\ sound = TRUE

\* Entries are taken on, and owed from then on.
Accept ==
    /\ accepted \subseteq accepted'
    /\ owed' = owed \cup (accepted' \ accepted)
    /\ UNCHANGED <<delivered, announced>>

Deliver ==
    /\ delivered \subseteq delivered'
    /\ UNCHANGED <<accepted, owed, announced>>

Announce ==
    /\ announced \subseteq announced'
    /\ UNCHANGED <<accepted, owed, delivered>>

\* Only what was delivered or announced stops being owed.
Release ==
    /\ owed' \subseteq owed
    /\ owed \ owed' \subseteq delivered \cup announced
    /\ UNCHANGED <<accepted, delivered, announced>>

Step == Accept \/ Deliver \/ Announce \/ Release

Next == (sound /\ sound' /\ Step) \/ ~sound'

Spec == Init /\ [][Next]_custody

(***************************************************************************)
(* Nothing accepted is ever simply missing (REL-103).                      *)
(***************************************************************************)
NothingMissing == sound => accepted \subseteq owed \cup delivered \cup announced
=============================================================================
