--------------------------- MODULE PairingProofs ---------------------------
(***************************************************************************)
(* What holds of Pairing for every set of grants, screens and drains and   *)
(* any number of redemptions, restarts and failures: a grant is redeemed   *)
(* once, a redemption is owed until it is reported, and an enforced        *)
(* revocation stays enforced.                                              *)
(***************************************************************************)
EXTENDS Pairing, TLAPS

USE PairingAssumption DEF Numbers, Rows, None, Screens

(***************************************************************************)
(* Every redemption's grant bears its consumption mark: RecordRedemption   *)
(* writes both or neither.                                                 *)
(***************************************************************************)
MarkedConsumed == \A k \in DOMAIN redemptions : redemptions[k] \in consumed

\* The mutex is held for a redemption that has been made.
RedeemingExists == redeeming # None => redeeming \in DOMAIN redemptions

\* The revoked set being applied is the persisted one: a pull wrote it, and the next waits.
AppliesTheSaved == snapshot.at # "none" => snapshot.revoked = saved

\* A drain holds an ack only for a redemption the app peer has taken.
AckedIsReported == \A d \in Drains : \A r \in acked[d] : r.of \in reported

\* Installing a revocation waits for the mutex, so it never overtakes a redemption
\* that passed the check.
NotRevokedMidway == redeeming # None => ScreenOf(redeeming) \notin enforced

SerialInv == TypeOK /\ MarkedConsumed /\ RedeemingExists /\ AppliesTheSaved

-----------------------------------------------------------------------------
(* Type correctness                                                        *)

\* Killing sessions leaves a table a table.
LEMMA KilledType ==
    ASSUME NEW table \in Cached, NEW screens
    PROVE  Killed(table, screens) \in Cached
  BY DEF Killed, Cached

\* The tables have entries.
LEMMA BlankType == Blank \in Cached
  BY DEF Blank, Cached

\* A recorded redemption is the last of the sequence.
LEMMA Appended ==
    ASSUME TypeOK, NEW g \in Grants, Len(redemptions) + 1 <= MaxRedemptions
    PROVE  LET r == Append(redemptions, g)
           IN /\ r \in Seq(Grants) /\ Len(r) = Len(redemptions) + 1
              /\ DOMAIN r = DOMAIN redemptions \union {Len(redemptions) + 1}
              /\ r[Len(redemptions) + 1] = g
              /\ \A k \in DOMAIN redemptions : r[k] = redemptions[k]
              /\ Len(redemptions) + 1 \in Numbers
              /\ Len(redemptions) + 1 \notin DOMAIN redemptions
  BY DEF TypeOK

\* What the recording of a redemption does, of whichever of the two kinds.
LEMMA RecordsSerial ==
    ASSUME SerialInv, NEW g \in Grants, Records(g),
           unread' \subseteq Grants, faults' \in 0..MaxFaults
    PROVE  SerialInv'
  <1>. USE DEF SerialInv
  <1>1. Len(redemptions) + 1 <= MaxRedemptions /\ redemptions' = Append(redemptions, g)
    BY DEF Records
  <1>2. TypeOK'
    <2>1. owed' \subseteq Rows
      <3>1. PICK n \in Numbers : owed' = owed \union {[seq |-> n, of |-> Len(redemptions) + 1]}
        BY DEF Records
      <3>. QED BY <1>1, <3>1, Appended DEF TypeOK
    <2>2. redeeming' \in Numbers /\ redemptions' \in Seq(Grants) /\ Len(redemptions') <= MaxRedemptions
      BY <1>1, Appended DEF Records
    <2>. QED BY <2>1, <2>2 DEF Records, TypeOK, appVars, drainVars
  <1>3. MarkedConsumed' /\ RedeemingExists'
    BY <1>1, Appended DEF Records, MarkedConsumed, RedeemingExists
  <1>4. AppliesTheSaved'
    BY DEF Records, AppliesTheSaved
  <1>. QED BY <1>2, <1>3, <1>4

\* The shape of the state is kept by every step.
LEMMA SerialInductive == SerialInv /\ [Next]_vars => SerialInv'
  <1>. SUFFICES ASSUME SerialInv, [Next]_vars PROVE SerialInv'
    OBVIOUS
  <1>. USE DEF SerialInv, TypeOK, MarkedConsumed, RedeemingExists, AppliesTheSaved
  <1>1. ASSUME NEW g \in Grants, AddsGrant(g) PROVE SerialInv'
    BY <1>1 DEF AddsGrant, diskVars, serveVars, drainVars, history
  <1>2. ASSUME NEW g \in Grants, TtlElapses(g) PROVE SerialInv'
    BY <1>2 DEF TtlElapses, diskVars, serveVars, drainVars, history
  <1>3. ASSUME NEW s \in Revocable, Revokes(s) PROVE SerialInv'
    BY <1>3 DEF Revokes, diskVars, serveVars, drainVars, history
  <1>4. CASE GenerationMoves
    BY <1>4 DEF GenerationMoves, diskVars, serveVars, drainVars, history
  <1>5. CASE Pulls
    BY <1>5 DEF Pulls, Deliverable, drainVars, history
  <1>6. CASE PullsNothingNew
    BY <1>6 DEF PullsNothingNew, diskVars, serveVars, drainVars, history
  <1>7. ASSUME NEW durably \in BOOLEAN, InstallsRevoked(durably) PROVE SerialInv'
    <2>1. tokens' \in Cached /\ sessions' \in Cached
      BY <1>7, KilledType DEF InstallsRevoked
    <2>2. faults' \in 0..MaxFaults
      BY <1>7 DEF InstallsRevoked, Faults, NoFault
    <2>3. snapshot' \in [grants : SUBSET Grants, revoked : SUBSET Screens, at : {"none", "revoke", "grant"}]
          /\ snapshot.revoked = saved /\ snapshot'.revoked = snapshot.revoked
      BY <1>7 DEF InstallsRevoked
    <2>. QED BY <1>7, <2>1, <2>2, <2>3 DEF InstallsRevoked, appVars, drainVars
  <1>8. CASE InstallsGrants
    BY <1>8 DEF InstallsGrants, NoSnapshot, appVars, diskVars, drainVars, history
  <1>9. ASSUME NEW g \in Grants, Redeems(g) PROVE SerialInv'
    <2>. HIDE DEF SerialInv
    <2>1. unread' \subseteq Grants /\ faults' \in 0..MaxFaults
      BY <1>9 DEF Redeems, SerialInv
    <2>. QED BY <1>9, <2>1, RecordsSerial DEF Redeems
  <1>10. ASSUME NEW g \in Grants, RedeemsUnread(g) PROVE SerialInv'
    <2>. HIDE DEF SerialInv
    <2>1. unread' \subseteq Grants /\ faults' \in 0..MaxFaults
      BY <1>10 DEF RedeemsUnread, NoFault, SerialInv
    <2>. QED BY <1>10, <2>1, RecordsSerial DEF RedeemsUnread
  <1>11. ASSUME NEW g \in Grants, RefusesConsumed(g) PROVE SerialInv'
    BY <1>11 DEF RefusesConsumed, appVars, diskVars, drainVars, history
  <1>12. ASSUME NEW durably \in BOOLEAN, Credentials(durably) PROVE SerialInv'
    <2>1. faults' \in 0..MaxFaults
      BY <1>12 DEF Credentials, Faults, NoFault
    <2>2. tokens' \in Cached /\ sessions' \in Cached
      BY <1>12 DEF Credentials, Cached
    <2>. QED BY <1>12, <2>1, <2>2 DEF Credentials, appVars, drainVars
  <1>13. ASSUME NEW k \in Numbers, LooksUp(k) PROVE SerialInv'
    <2>1. looking' \in Cached
      BY <1>13 DEF LooksUp, Cached
    <2>. QED BY <1>13, <2>1 DEF LooksUp, appVars, diskVars, drainVars, history
  <1>14. ASSUME NEW k \in Numbers, Backfills(k) PROVE SerialInv'
    <2>1. CachedNow(k) \in {"none", "live", "dead"}
      BY <1>14 DEF CachedNow, Cached
    <2>2. looking' \in Cached /\ tokens' \in Cached
      BY <1>14, <2>1 DEF Backfills, Cached
    <2>. QED BY <1>14, <2>2 DEF Backfills, appVars, diskVars, drainVars, history
  <1>15. ASSUME NEW d \in Drains, ReadsOwed(d) PROVE SerialInv'
    BY <1>15 DEF ReadsOwed, appVars, diskVars, serveVars, history
  <1>16. ASSUME NEW d \in Drains, NEW r \in batch[d], NEW heard \in BOOLEAN, Reports(d, r, heard)
         PROVE  SerialInv'
    <2>1. r \in Rows /\ offered' \subseteq offered /\ moved' \in BOOLEAN
      BY <1>16 DEF Reports, Retired
    <2>2. batch' \in [Drains -> SUBSET Rows] /\ acked' \in [Drains -> SUBSET Rows]
      BY <1>16, <2>1 DEF Reports
    <2>3. reported' = reported \union {r.of} /\ r.of \in Numbers
      BY <1>16, <2>1 DEF Reports
    <2>. QED BY <1>16, <2>1, <2>2, <2>3 DEF Reports, diskVars, serveVars
  <1>17. ASSUME NEW d \in Drains, NEW r \in acked[d], Retires(d, r) PROVE SerialInv'
    BY <1>17 DEF Retires, appVars, serveVars
  <1>18. ASSUME NEW d \in Drains, Stops(d) PROVE SerialInv'
    BY <1>18 DEF Stops, appVars, diskVars, serveVars, history
  <1>19. ASSUME NEW d \in Drains, RetireFails(d) PROVE SerialInv'
    BY <1>19 DEF RetireFails, Faults, appVars, diskVars, serveVars
  <1>20. ASSUME NEW online \in BOOLEAN, Restart(online) PROVE SerialInv'
    <2>1. tokens' \in Cached /\ looking' \in Cached /\ sessions' \in Cached
      BY <1>20, BlankType, KilledType DEF Restart
    <2>2. faults' \in 0..MaxFaults
      BY <1>20 DEF Restart, Faults
    <2>. QED BY <1>20, <2>1, <2>2 DEF Restart, Deliverable, OfflineView, NoSnapshot
  <1>21. CASE UNCHANGED vars
    BY <1>21 DEF vars, appVars, diskVars, serveVars, drainVars, history
  <1>. HIDE DEF SerialInv, TypeOK
  <1>22. Applies \/ InstallsRevoked(FALSE) => SerialInv'
    BY <1>5, <1>6, <1>7, <1>8 DEF Applies
  <1>23. ASSUME NEW d \in Drains, Drain(d) \/ Stops(d) \/ RetireFails(d) PROVE SerialInv'
    BY <1>15, <1>16, <1>17, <1>18, <1>19, <1>23 DEF Drain
  <1>. QED
    BY <1>1, <1>2, <1>3, <1>4, <1>9, <1>10, <1>11, <1>12, <1>13, <1>14, <1>20, <1>21, <1>22, <1>23
    DEF Next

\* An empty store and an unpaired relay are of that shape.
LEMMA SerialInit == Init => SerialInv
  <1>. SUFFICES ASSUME Init PROVE SerialInv
    OBVIOUS
  <1>1. redemptions = <<>> /\ redemptions \in Seq(Grants) /\ Len(redemptions) = 0
    BY DEF Init
  <1>2. TypeOK
    <2>1. sessions \in Cached /\ tokens \in Cached /\ looking \in Cached
      BY BlankType DEF Init
    <2>2. batch \in [Drains -> SUBSET Rows] /\ acked \in [Drains -> SUBSET Rows]
      BY DEF Init
    <2>3. snapshot \in [grants : SUBSET Grants, revoked : SUBSET Screens, at : {"none", "revoke", "grant"}]
      BY DEF Init, NoSnapshot
    <2>4. faults \in 0..MaxFaults /\ Len(redemptions) <= MaxRedemptions
      BY <1>1 DEF Init
    <2>. QED BY <1>1, <2>1, <2>2, <2>3, <2>4 DEF Init, TypeOK
  <1>. QED BY <1>1, <1>2 DEF Init, SerialInv, MarkedConsumed, RedeemingExists, AppliesTheSaved, NoSnapshot

\* The state keeps its shape, whatever is redeemed, reported, revoked or cut off: what is
\* enforced is persisted, and what is known to be redeemed bears its mark.
THEOREM TypeCorrect == Spec => []TypeOK
  <1>1. SerialInv => TypeOK
    BY DEF SerialInv
  <1>. QED BY <1>1, SerialInit, SerialInductive, PTL DEF Spec
-----------------------------------------------------------------------------
(* A grant is redeemed once                                                *)

\* Nothing but a redemption changes what has been redeemed or gone unread.
LEMMA OnlyRedeeming ==
    ASSUME [Next]_vars
    PROVE  \/ UNCHANGED <<redemptions, unread>>
           \/ \E g \in Grants : Redeems(g) \/ RedeemsUnread(g)
  <1>1. ASSUME NEW g \in Grants, AddsGrant(g) \/ TtlElapses(g) \/ RefusesConsumed(g)
        PROVE  UNCHANGED <<redemptions, unread>>
    BY <1>1 DEF AddsGrant, TtlElapses, RefusesConsumed, history
  <1>2. ASSUME NEW s \in Revocable, Revokes(s) PROVE UNCHANGED <<redemptions, unread>>
    BY <1>2 DEF Revokes, history
  <1>3. CASE GenerationMoves
    BY <1>3 DEF GenerationMoves, history
  <1>4. CASE Applies \/ InstallsRevoked(FALSE)
    BY <1>4 DEF Applies, Pulls, PullsNothingNew, InstallsRevoked, InstallsGrants, history
  <1>5. ASSUME NEW durably \in BOOLEAN, Credentials(durably) PROVE UNCHANGED <<redemptions, unread>>
    BY <1>5 DEF Credentials
  <1>6. ASSUME NEW k \in Numbers, LooksUp(k) \/ Backfills(k) PROVE UNCHANGED <<redemptions, unread>>
    BY <1>6 DEF LooksUp, Backfills, history
  <1>7. ASSUME NEW d \in Drains, Drain(d) \/ Stops(d) \/ RetireFails(d)
        PROVE  UNCHANGED <<redemptions, unread>>
    BY <1>7 DEF Drain, ReadsOwed, Reports, Retires, Stops, RetireFails, history
  <1>8. ASSUME NEW online \in BOOLEAN, Restart(online) PROVE UNCHANGED <<redemptions, unread>>
    BY <1>8 DEF Restart
  <1>9. CASE UNCHANGED vars
    BY <1>9 DEF vars, history
  <1>. QED BY <1>1, <1>2, <1>3, <1>4, <1>5, <1>6, <1>7, <1>8, <1>9 DEF Next

\* A step that redeems a grant redeems one that is not consumed, or could not be read.
LEMMA OnceInductive == SerialInv /\ AtMostOnce /\ [Next]_vars => AtMostOnce'
  <1>. SUFFICES ASSUME SerialInv, AtMostOnce, [Next]_vars PROVE AtMostOnce'
    OBVIOUS
  <1>1. CASE UNCHANGED <<redemptions, unread>>
    BY <1>1 DEF AtMostOnce
  <1>2. ASSUME NEW g \in Grants, Redeems(g) \/ RedeemsUnread(g) PROVE AtMostOnce'
    <2>. DEFINE n == Len(redemptions) + 1
    <2>1. n <= MaxRedemptions /\ redemptions' = Append(redemptions, g)
      BY <1>2 DEF Redeems, RedeemsUnread, Records
    <2>2. /\ DOMAIN redemptions' = DOMAIN redemptions \union {n} /\ redemptions'[n] = g
          /\ \A k \in DOMAIN redemptions : redemptions'[k] = redemptions[k]
      BY <2>1, Appended DEF SerialInv
    <2>3. unread \subseteq unread' /\ (g \in unread' \/ g \notin consumed)
      BY <1>2 DEF Redeems, RedeemsUnread, Redeemable
    <2>4. \A k \in DOMAIN redemptions : redemptions[k] = g => g \in unread'
      BY <2>3 DEF SerialInv, MarkedConsumed
    <2>. HIDE DEF n
    <2>. QED BY <2>2, <2>3, <2>4 DEF AtMostOnce
  <1>. QED BY <1>1, <1>2, OnlyRedeeming

\* Whatever restarts, failed writes and drains fall between two presentations of a grant,
\* it is redeemed once, unless the relay could not read whether it was.
THEOREM GrantRedeemedOnce == Spec => []AtMostOnce
  <1>1. Init => AtMostOnce
    BY DEF Init, AtMostOnce
  <1>. QED BY <1>1, SerialInit, SerialInductive, OnceInductive, PTL DEF Spec

-----------------------------------------------------------------------------
(* A redemption is owed until it is reported                               *)

OwedInv == OwedUntilReported /\ AckedIsReported

\* Rows leave the ledger by an ack, and an ack is only held for what was reported.
LEMMA OwedInductive == SerialInv /\ OwedInv /\ [Next]_vars => OwedInv'
  <1>. SUFFICES ASSUME SerialInv, OwedInv, [Next]_vars PROVE OwedInv'
    OBVIOUS
  <1>. USE DEF OwedInv, OwedUntilReported, AckedIsReported
  <1>1. CASE UNCHANGED <<redemptions, reported, mistaken, owed, acked>>
    BY <1>1
  <1>2. ASSUME NEW g \in Grants, Redeems(g) \/ RedeemsUnread(g) PROVE OwedInv'
    <2>. DEFINE n == Len(redemptions) + 1
    <2>1. /\ n <= MaxRedemptions /\ redemptions' = Append(redemptions, g)
          /\ UNCHANGED <<reported, mistaken, acked>>
      BY <1>2 DEF Redeems, RedeemsUnread, Records, drainVars
    <2>2. DOMAIN redemptions' = DOMAIN redemptions \union {n}
      BY <2>1, Appended DEF SerialInv
    <2>3. owed \subseteq owed' /\ \E r \in owed' : r.of = n
      <3>1. PICK m \in Numbers : owed' = owed \union {[seq |-> m, of |-> n]}
        BY <1>2 DEF Redeems, RedeemsUnread, Records
      <3>. HIDE DEF n
      <3>2. [seq |-> m, of |-> n].of = n
        OBVIOUS
      <3>. QED BY <3>1, <3>2
    <2>. HIDE DEF n
    <2>. QED BY <2>1, <2>2, <2>3
  <1>3. ASSUME NEW d \in Drains, NEW r \in batch[d], NEW heard \in BOOLEAN, Reports(d, r, heard)
        PROVE  OwedInv'
    <2>1. acked' = [acked EXCEPT ![d] = IF heard THEN {r} ELSE {}] /\ reported' = reported \union {r.of}
      BY <1>3 DEF Reports
    <2>2. UNCHANGED <<redemptions, mistaken, owed>>
      BY <1>3 DEF Reports, diskVars
    <2>3. acked \in [Drains -> SUBSET Rows]
      BY DEF SerialInv, TypeOK
    <2>. QED BY <2>1, <2>2, <2>3
  <1>4. ASSUME NEW d \in Drains, NEW r \in acked[d], Retires(d, r) PROVE OwedInv'
    <2>. DEFINE gone == {q \in owed : q.seq = r.seq}
    <2>1. /\ owed' = owed \ gone /\ mistaken' = mistaken \union {q.of : q \in gone \ {r}}
          /\ acked' = [acked EXCEPT ![d] = {}] /\ UNCHANGED <<redemptions, reported>>
      BY <1>4 DEF Retires
    <2>2. r.of \in reported /\ acked \in [Drains -> SUBSET Rows]
      BY DEF SerialInv, TypeOK
    <2>3. \A q \in gone : q.of \in reported \union mistaken'
      BY <2>1, <2>2
    <2>. HIDE DEF gone
    <2>4. OwedUntilReported'
      BY <2>1, <2>3
    <2>5. \A e \in Drains : acked'[e] \subseteq acked[e]
      BY <2>1, <2>2
    <2>6. AckedIsReported'
      BY <2>1, <2>5
    <2>. QED BY <2>4, <2>6
  <1>5. ASSUME UNCHANGED <<redemptions, reported, mistaken, owed>>, NEW D \in SUBSET Drains,
               acked' = [d \in Drains |-> IF d \in D THEN {} ELSE acked[d]]
        PROVE  OwedInv'
    BY <1>5
  <1>6. ASSUME NEW g \in Grants, AddsGrant(g) \/ TtlElapses(g) \/ RefusesConsumed(g)
        PROVE  OwedInv'
    BY <1>1, <1>6 DEF AddsGrant, TtlElapses, RefusesConsumed, history, diskVars, drainVars
  <1>7. ASSUME NEW s \in Revocable, Revokes(s) PROVE OwedInv'
    BY <1>1, <1>7 DEF Revokes, history, diskVars, drainVars
  <1>8. CASE GenerationMoves \/ Applies \/ InstallsRevoked(FALSE)
    BY <1>1, <1>8 DEF GenerationMoves, Applies, Pulls, PullsNothingNew, InstallsRevoked,
                      InstallsGrants, history, diskVars, drainVars
  <1>9. ASSUME NEW durably \in BOOLEAN, Credentials(durably) PROVE OwedInv'
    BY <1>1, <1>9 DEF Credentials, drainVars
  <1>10. ASSUME NEW k \in Numbers, LooksUp(k) \/ Backfills(k) PROVE OwedInv'
    BY <1>1, <1>10 DEF LooksUp, Backfills, history, diskVars, drainVars
  <1>11. ASSUME NEW d \in Drains, ReadsOwed(d) \/ Stops(d) PROVE OwedInv'
    BY <1>1, <1>11 DEF ReadsOwed, Stops, history, diskVars
  <1>12. ASSUME NEW d \in Drains, RetireFails(d) PROVE OwedInv'
    <2>1. acked' = [e \in Drains |-> IF e \in {d} THEN {} ELSE acked[e]]
      BY <1>12 DEF RetireFails, SerialInv, TypeOK
    <2>. QED BY <1>5, <1>12, <2>1 DEF RetireFails, diskVars
  <1>13. ASSUME NEW online \in BOOLEAN, Restart(online) PROVE OwedInv'
    <2>1. acked' = [e \in Drains |-> IF e \in Drains THEN {} ELSE acked[e]]
      BY <1>13 DEF Restart
    <2>. QED BY <1>5, <1>13, <2>1 DEF Restart
  <1>14. CASE UNCHANGED vars
    BY <1>1, <1>14 DEF vars, history, diskVars, drainVars
  <1>. HIDE DEF OwedInv
  <1>15. ASSUME NEW d \in Drains, Drain(d) PROVE OwedInv'
    BY <1>3, <1>4, <1>11, <1>15 DEF Drain
  <1>. QED BY <1>2, <1>6, <1>7, <1>8, <1>9, <1>10, <1>11, <1>12, <1>13, <1>14, <1>15 DEF Next

\* With any number of drains that report, retire, stop and fail over one ledger, no
\* redemption leaves it unreported but by the ack of a row whose number it was given.
THEOREM ReportStaysOwed == Spec => []OwedUntilReported
  <1>1. Init => OwedInv
    BY DEF Init, OwedInv, OwedUntilReported, AckedIsReported
  <1>2. OwedInv => OwedUntilReported
    BY DEF OwedInv
  <1>. QED BY <1>1, <1>2, SerialInit, SerialInductive, OwedInductive, PTL DEF Spec

-----------------------------------------------------------------------------
(* An enforced revocation stays enforced                                   *)

RevokedInv == RevokedStaysOut /\ NotRevokedMidway

\* What RevokedInv says, of a step that leaves the redemptions alone and makes no token live.
LEMMA NoNewLife ==
    ASSUME RevokedInv, UNCHANGED <<redemptions, redeeming, enforced, revoked>>,
           \A k \in DOMAIN redemptions : tokens'[k] = "live" => tokens[k] = "live" \/ ScreenOf(k) \notin revoked
    PROVE  RevokedInv'
  BY DEF RevokedInv, RevokedStaysOut, NotRevokedMidway, ScreenOf

\* The view is replaced by a wider one, and the live tokens of its screens die with it.
LEMMA InstallKills ==
    ASSUME SerialInv, RevokedInv, NEW durably \in BOOLEAN, InstallsRevoked(durably)
    PROVE  RevokedInv'
  <1>1. /\ redeeming = None /\ redeeming' = None /\ redemptions' = redemptions
        /\ revoked' = snapshot.revoked /\ enforced' = enforced \union snapshot.revoked
        /\ tokens' = Killed(tokens, snapshot.revoked)
    BY DEF InstallsRevoked
  <1>2. snapshot.revoked = saved /\ revoked \subseteq saved
    BY DEF InstallsRevoked, SerialInv, TypeOK, AppliesTheSaved
  <1>3. enforced' \subseteq revoked'
    BY <1>1, <1>2 DEF RevokedInv, RevokedStaysOut
  <1>4. ASSUME NEW k \in DOMAIN redemptions, tokens'[k] = "live" PROVE ScreenOf(k) \notin enforced'
    <2>1. k \in Numbers
      BY DEF SerialInv, TypeOK
    <2>2. tokens'[k] = IF k \in Of(snapshot.revoked) /\ tokens[k] = "live" THEN "dead" ELSE tokens[k]
      BY <1>1, <2>1 DEF Killed
    <2>3. tokens[k] = "live" /\ ScreenOf(k) \notin snapshot.revoked
      BY <1>4, <2>2 DEF Of
    <2>. QED BY <1>1, <2>3 DEF RevokedInv, RevokedStaysOut
  <1>. QED BY <1>1, <1>3, <1>4 DEF RevokedInv, RevokedStaysOut, NotRevokedMidway, ScreenOf

\* The screen of a new redemption is not in the view.
LEMMA RecordsUnrevoked ==
    ASSUME SerialInv, RevokedInv, NEW g \in Grants, Redeems(g) \/ RedeemsUnread(g)
    PROVE  RevokedInv'
  <1>. DEFINE n == Len(redemptions) + 1
  <1>1. /\ n <= MaxRedemptions /\ redemptions' = Append(redemptions, g) /\ redeeming' = n
        /\ UNCHANGED <<revoked, tokens, enforced>> /\ Screen[g] \notin revoked
    BY DEF Redeems, RedeemsUnread, Redeemable, Records
  <1>2. /\ DOMAIN redemptions' = DOMAIN redemptions \union {n} /\ redemptions'[n] = g
        /\ \A k \in DOMAIN redemptions : redemptions'[k] = redemptions[k]
    BY <1>1, Appended DEF SerialInv
  <1>3. Screen[g] \notin enforced
    BY <1>1 DEF RevokedInv, RevokedStaysOut
  <1>. HIDE DEF n
  <1>. QED BY <1>1, <1>2, <1>3 DEF RevokedInv, RevokedStaysOut, NotRevokedMidway, ScreenOf

\* A look-up or a credential gives life to no token of an enforced screen.
LEMMA RevokedInductive == SerialInv /\ RevokedInv /\ [Next]_vars => RevokedInv'
  <1>. SUFFICES ASSUME SerialInv, RevokedInv, [Next]_vars PROVE RevokedInv'
    OBVIOUS
  <1>1. CASE UNCHANGED <<redemptions, redeeming, enforced, revoked, tokens>>
    BY <1>1, NoNewLife
  <1>2. ASSUME NEW g \in Grants, Redeems(g) \/ RedeemsUnread(g) PROVE RevokedInv'
    BY <1>2, RecordsUnrevoked
  <1>3. ASSUME NEW durably \in BOOLEAN, InstallsRevoked(durably) PROVE RevokedInv'
    BY <1>3, InstallKills
  <1>4. ASSUME NEW durably \in BOOLEAN, Credentials(durably) PROVE RevokedInv'
    <2>1. /\ redeeming \in DOMAIN redemptions /\ redeeming' = None
          /\ tokens' = [tokens EXCEPT ![redeeming] = "live"]
          /\ UNCHANGED <<redemptions, enforced, revoked>>
      BY <1>4 DEF Credentials, SerialInv, RedeemingExists
    <2>2. ScreenOf(redeeming) \notin enforced
      BY <1>4 DEF Credentials, RevokedInv, NotRevokedMidway
    <2>3. ASSUME NEW k \in DOMAIN redemptions, ScreenOf(k) \in enforced PROVE tokens'[k] # "live"
      <3>1. k # redeeming
        BY <2>2, <2>3
      <3>2. tokens'[k] = tokens[k]
        BY <2>1, <3>1, <2>3 DEF SerialInv, TypeOK, Cached
      <3>. QED BY <2>3, <3>2 DEF RevokedInv, RevokedStaysOut
    <2>. QED BY <2>1, <2>3 DEF RevokedInv, RevokedStaysOut, NotRevokedMidway, ScreenOf
  <1>5. ASSUME NEW k \in Numbers, Backfills(k) PROVE RevokedInv'
    <2>1. /\ tokens' = [tokens EXCEPT ![k] = CachedNow(k)]
          /\ UNCHANGED <<redemptions, redeeming, enforced, revoked>>
      BY <1>5 DEF Backfills, history
    <2>2. ASSUME NEW j \in DOMAIN redemptions, tokens'[j] = "live"
          PROVE  tokens[j] = "live" \/ ScreenOf(j) \notin revoked
      <3>1. CASE j = k
        BY <2>1, <2>2, <3>1 DEF CachedNow, SerialInv, TypeOK, Cached
      <3>2. CASE j # k
        BY <2>1, <2>2, <3>2 DEF SerialInv, TypeOK, Cached
      <3>. QED BY <3>1, <3>2
    <2>. QED BY <2>1, <2>2, NoNewLife
  <1>6. ASSUME NEW online \in BOOLEAN, Restart(online) PROVE RevokedInv'
    <2>1. /\ enforced' \subseteq revoked' /\ redeeming' = None /\ tokens' = Blank
          /\ redemptions' = redemptions
      BY <1>6 DEF Restart, OfflineView, SerialInv, TypeOK, RevokedInv, RevokedStaysOut
    <2>2. \A k \in DOMAIN redemptions : tokens'[k] # "live"
      BY <2>1 DEF Blank, SerialInv, TypeOK
    <2>. QED BY <2>1, <2>2 DEF RevokedInv, RevokedStaysOut, NotRevokedMidway
  <1>7. ASSUME NEW g \in Grants, AddsGrant(g) \/ TtlElapses(g) \/ RefusesConsumed(g)
        PROVE  RevokedInv'
    BY <1>1, <1>7 DEF AddsGrant, TtlElapses, RefusesConsumed, history, serveVars
  <1>8. ASSUME NEW s \in Revocable, Revokes(s) PROVE RevokedInv'
    BY <1>1, <1>8 DEF Revokes, history, serveVars
  <1>9. CASE GenerationMoves \/ Pulls \/ PullsNothingNew \/ InstallsGrants
    BY <1>1, <1>9 DEF GenerationMoves, Pulls, PullsNothingNew, InstallsGrants, history, serveVars
  <1>10. ASSUME NEW k \in Numbers, LooksUp(k) PROVE RevokedInv'
    BY <1>1, <1>10 DEF LooksUp, history
  <1>11. ASSUME NEW d \in Drains, Drain(d) \/ Stops(d) \/ RetireFails(d) PROVE RevokedInv'
    BY <1>1, <1>11 DEF Drain, ReadsOwed, Reports, Retires, Stops, RetireFails, history, serveVars
  <1>12. CASE UNCHANGED vars
    BY <1>1, <1>12 DEF vars, history, serveVars
  <1>13. Applies \/ InstallsRevoked(FALSE) => RevokedInv'
    BY <1>3, <1>9 DEF Applies
  <1>. QED BY <1>2, <1>4, <1>5, <1>6, <1>7, <1>8, <1>9, <1>10, <1>11, <1>12, <1>13 DEF Next

\* A screen once refused is refused for good, whatever restarts without the app peer or
\* late back-fill of a session comes between.
THEOREM RevocationHolds == Spec => []RevokedStaysOut
  <1>1. Init => RevokedInv
    BY DEF Init, RevokedInv, RevokedStaysOut, NotRevokedMidway
  <1>2. RevokedInv => RevokedStaysOut
    BY DEF RevokedInv
  <1>. QED BY <1>1, <1>2, SerialInit, SerialInductive, RevokedInductive, PTL DEF Spec
=============================================================================
