------------------------------ MODULE Pairing ------------------------------
(***************************************************************************)
(* One-time pairing grants from the app peer that mints them               *)
(* (internal/app/store/pairinggrants.go) through the relay that redeems    *)
(* them (internal/relay/playerserver/pairing.go, identity/playersession.go)*)
(* to the report that retires them, and the revocation of screens, which   *)
(* travels with the grants and kills the sessions the redemptions made.    *)
(*                                                                         *)
(* A redemption is known by its number: the session it mints, the report   *)
(* it owes and the channel token of the player all bear it.  A section of  *)
(* the relay that holds the server's mutex is one step, except where a     *)
(* crash or a failed write falls within it.                                *)
(***************************************************************************)
EXTENDS Naturals, Sequences, FiniteSets

CONSTANTS
    Grants,          \* grant ids
    Screen,          \* grant -> the screen it is bound to
    Drains,          \* goroutines that report redemptions
    Ticker,          \* the one of them with a ticker; another runs on connecting
    ShortLived,      \* bound: grants whose ttl may elapse
    Revocable,       \* bound: screens that may be revoked
    MaxRedemptions,  \* bound: redemptions
    MaxFaults        \* bound: restarts and failed writes

ASSUME PairingAssumption ==
    /\ MaxRedemptions \in Nat /\ MaxFaults \in Nat
    /\ Ticker \in Drains /\ ShortLived \subseteq Grants /\ Revocable \subseteq {Screen[g] : g \in Grants}

Screens == {Screen[g] : g \in Grants}
Numbers == 1..MaxRedemptions
Rows == [seq : Numbers, of : Numbers]
None == 0
NoSnapshot == [grants |-> {}, revoked |-> {}, at |-> "none"]

VARIABLES
    \* the app peer
    minted,       \* grants ever minted
    offered,      \* grants in its store
    barred,       \* screens whose revocation it has recorded
    moved,        \* the generation has moved since the relay pulled
    expired,      \* grants whose ttl has elapsed, on either side's clock
    \* the relay, persistent
    saved,        \* revoked set of the last applied snapshot
    consumed,     \* grants marked redeemed
    owed,         \* report ledger
    sessions,     \* redemption -> its session: "none", "live", "dead"
    \* the relay, in memory
    snapshot,     \* the one being applied
    grants,       \* redeemable
    spent,        \* known to be redeemed
    revoked,      \* the revocation view
    tokens,       \* redemption -> its session as cached
    redeeming,    \* the redemption recorded and not yet credentialed, under the mutex
    looking,      \* redemption -> what a lookup of its token has read and not cached yet
    batch,        \* drain -> rows it has read and not reported yet
    acked,        \* drain -> the row whose ack it has and has not retired yet
    \* history
    redemptions,  \* the grant of each
    reported,     \* those the app peer has taken the report of
    mistaken,     \* those whose report was retired by the ack of another
    unread,       \* grants taken for unredeemed because the ledger could not be read
    enforced,     \* screens ever in the revocation view
    faults

appVars == <<minted, offered, barred, moved, expired>>
diskVars == <<saved, consumed, owed, sessions>>
serveVars == <<snapshot, grants, spent, revoked, tokens, redeeming, looking>>
drainVars == <<batch, acked>>
history == <<redemptions, reported, mistaken, unread, enforced, faults>>
vars == <<appVars, diskVars, serveVars, drainVars, history>>

Cached == [Numbers -> {"none", "live", "dead"}]

TypeOK ==
    /\ offered \subseteq minted /\ minted \subseteq Grants /\ expired \subseteq minted
    /\ barred \subseteq Screens /\ moved \in BOOLEAN
    /\ saved \subseteq barred /\ consumed \subseteq Grants /\ owed \subseteq Rows
    /\ sessions \in Cached /\ tokens \in Cached /\ looking \in Cached
    /\ snapshot \in [grants : SUBSET Grants, revoked : SUBSET Screens, at : {"none", "revoke", "grant"}]
    /\ grants \subseteq Grants /\ spent \subseteq consumed
    /\ revoked \subseteq saved
    /\ redeeming \in Numbers \union {None}
    /\ batch \in [Drains -> SUBSET Rows] /\ acked \in [Drains -> SUBSET Rows]
    /\ redemptions \in Seq(Grants) /\ Len(redemptions) <= MaxRedemptions
    /\ reported \subseteq Numbers /\ mistaken \subseteq Numbers
    /\ unread \subseteq Grants /\ enforced \subseteq Screens
    /\ faults \in 0..MaxFaults

Blank == [k \in Numbers |-> "none"]

Init ==
    /\ minted = {} /\ offered = {} /\ barred = {} /\ moved = FALSE /\ expired = {}
    /\ saved = {} /\ consumed = {} /\ owed = {} /\ sessions = Blank
    /\ snapshot = NoSnapshot /\ grants = {} /\ spent = {} /\ revoked = {}
    /\ tokens = Blank /\ redeeming = None /\ looking = Blank
    /\ batch = [d \in Drains |-> {}] /\ acked = [d \in Drains |-> {}]
    /\ redemptions = <<>> /\ reported = {} /\ mistaken = {} /\ unread = {}
    /\ enforced = {} /\ faults = 0

Faults == faults < MaxFaults /\ faults' = faults + 1
NoFault == faults' = faults

ScreenOf(k) == Screen[redemptions[k]]
Of(screens) == {k \in DOMAIN redemptions : ScreenOf(k) \in screens}
-----------------------------------------------------------------------------
(***************************************************************************)
(* The app peer.                                                           *)
(***************************************************************************)
\* The rows past their ttl go when one is added.
AddsGrant(g) ==
    /\ g \notin minted
    /\ minted' = minted \union {g}
    /\ offered' = (offered \ expired) \union {g}
    /\ moved' = TRUE
    /\ UNCHANGED <<barred, expired, diskVars, serveVars, drainVars, history>>

\* RevokeSubject does not move the generation.
Revokes(s) ==
    /\ barred' = barred \union {s}
    /\ UNCHANGED <<minted, offered, moved, expired, diskVars, serveVars, drainVars, history>>

\* Another authored write, or the re-mint that is due every twelve hours.
GenerationMoves ==
    /\ moved' = TRUE
    /\ UNCHANGED <<minted, offered, barred, expired, diskVars, serveVars, drainVars, history>>

TtlElapses(g) ==
    /\ g \in minted \intersect ShortLived
    /\ expired' = expired \union {g}
    /\ UNCHANGED <<minted, offered, barred, moved, diskVars, serveVars, drainVars, history>>

Deliverable == offered \ expired
-----------------------------------------------------------------------------
(***************************************************************************)
(* Applying a snapshot.  A pull persists it before anything is installed.  *)
(***************************************************************************)

Pulls ==
    /\ moved /\ snapshot.at = "none"
    /\ moved' = FALSE /\ saved' = barred
    /\ snapshot' = [grants |-> Deliverable, revoked |-> barred, at |-> "revoke"]
    /\ UNCHANGED <<minted, offered, barred, expired, consumed, owed, sessions,
                   grants, spent, revoked, tokens, redeeming, looking, drainVars, history>>

\* Bug: two snapshots are the same if their grants are.
SameGrants == Deliverable = grants
SameSections == Deliverable = grants /\ barred = saved /\ saved = revoked

\* A newer generation whose sections are those last applied.
PullsNothingNew ==
    /\ moved /\ snapshot.at = "none"
    /\ SameSections
    /\ moved' = FALSE
    /\ UNCHANGED <<minted, offered, barred, expired, diskVars, serveVars, drainVars, history>>

Killed(table, screens) ==
    [k \in Numbers |-> IF k \in Of(screens) /\ table[k] = "live" THEN "dead" ELSE table[k]]

\* The view first; then the cached sessions of every screen in it and the durable ones.
InstallsRevoked(durably) ==
    /\ redeeming = None
    /\ snapshot.at = "revoke"
    /\ snapshot' = [snapshot EXCEPT !.at = "grant"]
    /\ revoked' = snapshot.revoked /\ enforced' = enforced \union snapshot.revoked
    /\ tokens' = Killed(tokens, snapshot.revoked)
    /\ IF durably THEN sessions' = Killed(sessions, snapshot.revoked) /\ NoFault
                  ELSE UNCHANGED sessions /\ Faults
    /\ UNCHANGED <<appVars, saved, consumed, owed, grants, spent, redeeming, looking, drainVars,
                   redemptions, reported, mistaken, unread>>

InstallsGrants ==
    /\ redeeming = None
    /\ snapshot.at = "grant"
    /\ grants' = snapshot.grants
    /\ snapshot' = NoSnapshot
    /\ UNCHANGED <<appVars, diskVars, spent, revoked, tokens, redeeming, looking, drainVars, history>>
-----------------------------------------------------------------------------
(***************************************************************************)
(* Redeeming.                                                              *)
(***************************************************************************)
\* The ledger gives a row the number after the highest there is.
IsNextSeq(n) ==
    /\ \A r \in owed : r.seq < n
    /\ n = 1 \/ \E r \in owed : n = r.seq + 1

\* Bug: only this process's own redemptions are asked for.
RedeemableInMemory(g) ==
    g \in grants /\ g \notin spent /\ g \notin expired /\ Screen[g] \notin revoked
Redeemable(g) ==
    /\ g \in grants /\ g \notin spent \union consumed
    /\ g \notin expired /\ Screen[g] \notin revoked

\* One transaction marks the grant consumed and records the report owed.
Records(g) ==
    LET k == Len(redemptions) + 1
    IN /\ redeeming = None /\ k <= MaxRedemptions
       /\ redemptions' = Append(redemptions, g)
       /\ consumed' = consumed \union {g}
       /\ \E n \in Numbers : IsNextSeq(n) /\ owed' = owed \union {[seq |-> n, of |-> k]}
       /\ redeeming' = k
       /\ UNCHANGED <<appVars, saved, sessions, snapshot, grants, spent, revoked, tokens, looking,
                      drainVars, reported, mistaken, enforced>>

Redeems(g) == Redeemable(g) /\ Records(g) /\ UNCHANGED <<unread, faults>>

\* A read of the consumption mark that fails is taken for "not redeemed".
RedeemsUnread(g) ==
    /\ g \in grants /\ g \in consumed \ spent
    /\ g \notin expired /\ Screen[g] \notin revoked
    /\ Records(g) /\ NoFault
    /\ unread' = unread \union {g}

\* Refused, and from now on refused without a read.
RefusesConsumed(g) ==
    /\ redeeming = None /\ g \in grants /\ g \in consumed \ spent
    /\ spent' = spent \union {g}
    /\ UNCHANGED <<appVars, diskVars, snapshot, grants, revoked, tokens, redeeming, looking,
                   drainVars, history>>

\* The token is cached, then its session persisted; if that fails the player gets none.
Credentials(durably) ==
    /\ redeeming # None
    /\ spent' = spent \union {redemptions[redeeming]}
    /\ tokens' = [tokens EXCEPT ![redeeming] = "live"]
    /\ IF durably THEN sessions' = [sessions EXCEPT ![redeeming] = "live"] /\ NoFault
                  ELSE UNCHANGED sessions /\ Faults
    /\ redeeming' = None
    /\ UNCHANGED <<appVars, saved, consumed, owed, snapshot, grants, revoked, looking, drainVars,
                   redemptions, reported, mistaken, unread, enforced>>
-----------------------------------------------------------------------------
(***************************************************************************)
(* A player presents its token after a restart.                            *)
(***************************************************************************)
LooksUp(k) ==
    /\ redeeming = None
    /\ tokens[k] = "none" /\ looking[k] = "none" /\ sessions[k] # "none"
    /\ looking' = [looking EXCEPT ![k] = sessions[k]]
    /\ UNCHANGED <<appVars, diskVars, snapshot, grants, spent, revoked, tokens, redeeming,
                   drainVars, history>>

\* Bug: what was read is cached as it was read.
CachedAsRead(k) == looking[k]
CachedNow(k) == IF ScreenOf(k) \in revoked THEN "dead" ELSE looking[k]

Backfills(k) ==
    /\ redeeming = None /\ looking[k] # "none"
    /\ tokens' = [tokens EXCEPT ![k] = CachedNow(k)]
    /\ looking' = [looking EXCEPT ![k] = "none"]
    /\ UNCHANGED <<appVars, diskVars, snapshot, grants, spent, revoked, redeeming, drainVars, history>>
-----------------------------------------------------------------------------
(***************************************************************************)
(* Reporting.                                                              *)
(***************************************************************************)
ReadsOwed(d) ==
    /\ batch[d] = {} /\ acked[d] = {} /\ owed # {}
    /\ batch' = [batch EXCEPT ![d] = owed]
    /\ UNCHANGED <<appVars, diskVars, serveVars, acked, history>>

First(r, rows) == r \in rows /\ \A q \in rows : r.seq <= q.seq

\* Bug: a grant past its ttl is not retired.
RetiredIfLive(g) == IF g \in expired THEN offered ELSE offered \ {g}
Retired(g) == offered \ {g}

\* The app peer retires the grant, if it still has it, and acks; without the ack the batch stops.
Reports(d, r, heard) ==
    LET g == redemptions[r.of]
    IN /\ acked[d] = {} /\ First(r, batch[d])
       /\ offered' = Retired(g)
       /\ moved' = (moved \/ g \in offered)
       /\ reported' = reported \union {r.of}
       /\ acked' = [acked EXCEPT ![d] = IF heard THEN {r} ELSE {}]
       /\ batch' = [batch EXCEPT ![d] = IF heard THEN @ \ {r} ELSE {}]
       /\ UNCHANGED <<minted, barred, expired, diskVars, serveVars, redemptions, mistaken, unread,
                      enforced, faults>>

\* Bug: a row whose report was sent goes, answered or not.
StopsRetiring(d) ==
    /\ batch[d] # {} /\ acked[d] = {}
    /\ owed' = {r \in owed : ~First(r, batch[d])}
    /\ batch' = [batch EXCEPT ![d] = {}]
    /\ UNCHANGED <<appVars, saved, consumed, sessions, serveVars, acked, history>>

\* The report is lost or could not be handled.
Stops(d) ==
    /\ batch[d] # {} /\ acked[d] = {}
    /\ batch' = [batch EXCEPT ![d] = {}]
    /\ UNCHANGED <<appVars, diskVars, serveVars, acked, history>>

\* The row with the number of the one acked goes, whichever redemption it is of now.
Retires(d, r) ==
    LET gone == {q \in owed : q.seq = r.seq}
    IN /\ r \in acked[d]
       /\ owed' = owed \ gone
       /\ mistaken' = mistaken \union {q.of : q \in gone \ {r}}
       /\ acked' = [acked EXCEPT ![d] = {}]
       /\ UNCHANGED <<appVars, saved, consumed, sessions, serveVars, batch, redemptions, reported,
                      unread, enforced, faults>>

RetireFails(d) ==
    /\ acked[d] # {} /\ Faults
    /\ batch' = [batch EXCEPT ![d] = {}] /\ acked' = [acked EXCEPT ![d] = {}]
    /\ UNCHANGED <<appVars, diskVars, serveVars, redemptions, reported, mistaken, unread, enforced>>
-----------------------------------------------------------------------------
\* Bug: an offline boot starts from an empty revocation view.
OfflineViewEmpty == {}
OfflineView == saved

\* The process stops and boots: with the app peer in reach it pulls the whole snapshot;
\* else it serves what it persisted, which the grants are not part of.
Restart(online) ==
    LET view == IF online THEN barred ELSE OfflineView
    IN /\ Faults
       /\ saved' = IF online THEN barred ELSE saved
       /\ revoked' = view /\ enforced' = enforced \union view
       /\ sessions' = Killed(sessions, view)
       /\ grants' = IF online THEN Deliverable ELSE {}
       /\ moved' = ~online
       /\ snapshot' = NoSnapshot /\ spent' = {} /\ redeeming' = None
       /\ tokens' = Blank /\ looking' = Blank
       /\ batch' = [d \in Drains |-> {}] /\ acked' = [d \in Drains |-> {}]
       /\ UNCHANGED <<minted, offered, barred, expired, consumed, owed, redemptions, reported,
                      mistaken, unread>>

Applies == Pulls \/ PullsNothingNew \/ InstallsRevoked(TRUE) \/ InstallsGrants
Drain(d) == \/ ReadsOwed(d)
            \/ \E r \in batch[d], heard \in BOOLEAN : Reports(d, r, heard)
            \/ \E r \in acked[d] : Retires(d, r)

Next ==
    \/ \E g \in Grants : AddsGrant(g) \/ TtlElapses(g)
    \/ \E s \in Revocable : Revokes(s)
    \/ GenerationMoves
    \/ Applies \/ InstallsRevoked(FALSE)
    \/ \E g \in Grants : Redeems(g) \/ RedeemsUnread(g) \/ RefusesConsumed(g)
    \/ \E durably \in BOOLEAN : Credentials(durably)
    \/ \E k \in Numbers : LooksUp(k) \/ Backfills(k)
    \/ \E d \in Drains : Drain(d) \/ Stops(d) \/ RetireFails(d)
    \/ \E online \in BOOLEAN : Restart(online)

Spec == Init /\ [][Next]_vars

\* A request that holds the mutex finishes; the nudge and the reconnect pull; the re-mint and
\* the drain's ticker go on; a report gets through if it is sent again and again.
FairSpec ==
    /\ Spec
    /\ WF_vars(Credentials(TRUE)) /\ WF_vars(Applies) /\ WF_vars(GenerationMoves)
    /\ WF_vars(ReadsOwed(Ticker)) /\ WF_vars(\E r \in acked[Ticker] : Retires(Ticker, r))
    /\ SF_vars(\E r \in batch[Ticker] : Reports(Ticker, r, TRUE))
-----------------------------------------------------------------------------
(***************************************************************************)
(* Properties.                                                             *)
(***************************************************************************)
\* REL-121 (redeem, RecordRedemption): a grant is redeemed at most once, whatever restarts
\* fall between, unless its consumption mark could not be read.
AtMostOnce ==
    \A j, k \in DOMAIN redemptions :
        redemptions[j] = redemptions[k] /\ redemptions[j] \notin unread => j = k

\* REL-124, REL-124d: a redemption is owed until the app peer has taken its report, but for
\* one whose row number another drain still held from a row since retired.
OwedUntilReported ==
    \A k \in DOMAIN redemptions :
        k \in reported \union mistaken \/ \E r \in owed : r.of = k

\* REL-124d: "MUST NOT discard its record that a redemption is owed until that redemption's
\* own ack": never by the ack of another.
RetiredByItsOwnAck == mistaken \subseteq reported

\* REL-123 (SetRevokedScreens, lookupSession, ServedRevocation): once the relay has enforced
\* a screen's revocation it does so for good, across restarts and without the app peer, and
\* no session of that screen is served, however it came into the cache.
RevokedStaysOut ==
    /\ enforced \subseteq revoked
    /\ \A k \in DOMAIN redemptions : ScreenOf(k) \in enforced => tokens[k] # "live"

\* API-140, REL-066: a recorded revocation reaches the relay; it takes another move of the
\* generation to carry it.
RevocationIsEnforced == \A s \in Screens : s \in barred ~> s \in revoked

\* REL-124a: the app peer comes to retire every grant redeemed.
Redeemed(k) == k \in DOMAIN redemptions
RedeemedIsRetired ==
    \A k \in Numbers :
        Redeemed(k) ~> (k \in mistaken \/ (Redeemed(k) /\ redemptions[k] \notin offered))
=============================================================================
