----------------------------- MODULE Native_proofs -----------------------------
(***************************************************************************)
(* The native file tools: the replay table of the write tools, for any     *)
(* number of calls, keys and files and whatever its capacity; and paging   *)
(* through, editing and patching a file of any size.                       *)
(*                                                                         *)
(* The table: a keyed write that is under way owns a pending entry with    *)
(* its own arguments; an entry whose outcome is unknown is never dropped,  *)
(* because room is only made by dropping a complete one; and a complete    *)
(* entry was made by a call that has answered, and an answered call never  *)
(* changes.  What the files do plays no part in that.                      *)
(*                                                                         *)
(* The files: what a transaction installs is only where it says so and is  *)
(* never renamed away; what is renamed away is in a backup or back in its  *)
(* place; the files are done in order and undone in order; and what is     *)
(* removed is the transaction's own, or was written after it last looked.  *)
(*                                                                         *)
(* Paging: a reading stands before a byte of a line, at the start of a     *)
(* character, and has read all before it; or behind the last line.         *)
(*                                                                         *)
(* Texts: places are apart and in order, and splicing from the last to the *)
(* first moves what is behind a place by what was added less what was      *)
(* removed there, which is what the ranges count from the first.           *)
(***************************************************************************)
EXTENDS NativeWrites, NativeText, FiniteSetTheorems, SequenceTheorems, WellFoundedInduction, TLAPS

Fields == {"pc", "slot", "kind", "dry", "plan", "seen", "base", "outcome", "life"}
Whys == {"none", "done", "conflict", "io_error", "rollback_failed"}

WritesShape ==
  /\ restarts \in Nat
  /\ DOMAIN entry = Slots /\ \A s \in Slots : DOMAIN entry[s] = {"args", "state"}
  /\ DOMAIN call = Calls
  /\ \A c \in Calls : /\ DOMAIN call[c] = Fields /\ call[c].life \in Nat /\ call[c].life <= restarts
                      /\ call[c].pc \notin {"idle", "answered"} => call[c].life = restarts
                      /\ call[c].pc \in {"idle", "lookup"} => call[c].outcome = "none"

\* A transaction is of a call that waits for it.
TxHeld ==
  /\ {"owner", "pc", "why"} \subseteq DOMAIN tx /\ tx.why \in Whys
  /\ tx.pc # "free" => tx.owner \in Calls /\ call[tx.owner].pc = "commit"

\* A write that is remembered under its key.
Keyed(c) == call[c].slot \in Slots /\ ~ call[c].dry

EntryIsOwn ==
  \A c \in Calls : Executing(c) /\ Keyed(c) =>
    /\ entry[call[c].slot].state = "pending" /\ entry[call[c].slot].args = Arguments(c)
    /\ \A d \in Calls : Executing(d) /\ Keyed(d) /\ call[d].slot = call[c].slot => d = c

UnknownStays ==
  \A c \in Calls :
    call[c].outcome \in {"io_error", "rollback_failed"} /\ Keyed(c) /\ call[c].life = restarts
      => Executing(c) \/ entry[call[c].slot].state = "unknown"

\* A write that was done, and answered.
Evidence(d, s, args, life) ==
  /\ call[d].pc = "answered" /\ call[d].outcome = "done" /\ ~ call[d].dry
  /\ call[d].slot = s /\ Arguments(d) = args /\ call[d].life = life

CompleteIsDone ==
  \A s \in Slots : entry[s].state = "complete" => \E d \in Calls : Evidence(d, s, entry[s].args, restarts)

ReplayIsDone ==
  \A c \in Calls : call[c].outcome = "replayed" =>
    /\ call[c].pc = "answered"
    /\ \E d \in Calls : Evidence(d, call[c].slot, Arguments(c), call[c].life)

WritesInv ==
  /\ WritesShape /\ TxHeld /\ EntryIsOwn /\ UnknownStays /\ CompleteIsDone /\ ReplayIsDone

----------------------------------------------------------------------------
(* Steps of the transaction.                                               *)

TxMoves == /\ {"owner", "pc", "why"} \subseteq DOMAIN tx'
           /\ tx'.why \in Whys /\ tx'.owner = tx.owner /\ tx.pc # "free"

\* Whatever the transaction does, the calls and the table are as they were.
LEMMA TransactionKeeps ==
  ASSUME WritesInv, UNCHANGED <<call, entry, restarts>>, TxHeld'
  PROVE  WritesInv'
  BY DEF WritesInv, WritesShape, EntryIsOwn, UnknownStays, CompleteIsDone, ReplayIsDone, Evidence, Keyed,
     Executing, Arguments

LEMMA TxStep ==
  ASSUME WritesInv,
         Stage \/ CheckItem \/ BackUp \/ Install \/ Confirm \/ FinalCheck \/ Undo \/ RemoveInstalled
         \/ Restore \/ Cleanup
  PROVE  WritesInv'
<1>1. UNCHANGED <<call, entry, restarts>>
  BY DEF Stage, CheckItem, BackUp, Install, Confirm, FinalCheck, Undo, RemoveInstalled, Restore, Cleanup,
     replayVars
<1>2. TxMoves
  <2> USE DEF TxMoves, WritesInv, TxHeld, Running, Whys, Abort
  <2>1. CASE Stage
    BY <2>1 DEF Stage, GoTo
  <2>2. CASE CheckItem
    BY <2>2 DEF CheckItem
  <2>3. CASE BackUp
    BY <2>3 DEF BackUp
  <2>4. CASE Install
    BY <2>4 DEF Install, GoTo
  <2>5. CASE Confirm
    BY <2>5 DEF Confirm, GoTo
  <2>6. CASE FinalCheck
    BY <2>6 DEF FinalCheck
  <2>7. CASE Undo
    BY <2>7 DEF Undo
  <2>8. CASE RemoveInstalled
    BY <2>8 DEF RemoveInstalled
  <2>9. CASE Restore
    BY <2>9 DEF Restore
  <2>10. CASE Cleanup
    BY <2>10 DEF Cleanup
  <2> QED BY <2>1, <2>2, <2>3, <2>4, <2>5, <2>6, <2>7, <2>8, <2>9, <2>10
<1>3. TxHeld'
  BY <1>1, <1>2 DEF TxMoves, WritesInv, TxHeld
<1> QED BY <1>1, <1>3, TransactionKeeps

LEMMA AcquireKeeps ==
  ASSUME WritesInv, NEW c \in Calls, Acquire(c)
  PROVE  WritesInv'
<1>1. UNCHANGED <<call, entry, restarts>> /\ call[c].pc = "commit"
  BY DEF Acquire, replayVars
<1>2. /\ {"owner", "pc", "why"} \subseteq DOMAIN tx' /\ tx'.why \in Whys /\ tx'.owner = c
  BY DEF Acquire, NoTx, Whys
<1> QED BY <1>1, <1>2, TransactionKeeps DEF TxHeld

LEMMA ExternalKeeps ==
  ASSUME WritesInv, NEW p \in Paths, ExternalWrite(p) \/ ExternalBackupWrite(p)
  PROVE  WritesInv'
<1>1. UNCHANGED <<call, entry, restarts>>
  BY DEF ExternalWrite, ExternalBackupWrite, replayVars
<1>2. TxHeld'
  BY <1>1 DEF ExternalWrite, ExternalBackupWrite, WritesInv, TxHeld
<1> QED BY <1>1, <1>2, TransactionKeeps

----------------------------------------------------------------------------
(* Steps of one call.                                                      *)

\* A call that has not answered changes: what others have answered stands.
LEMMA AnswersStand ==
  ASSUME WritesInv, NEW c \in Calls, NEW w, call[c].pc # "answered", call' = [call EXCEPT ![c] = w]
  PROVE  /\ DOMAIN call' = Calls /\ call'[c] = w /\ \A d \in Calls \ {c} : call'[d] = call[d]
         /\ \A d \in Calls \ {c} : (Executing(d)' <=> Executing(d)) /\ (Keyed(d)' <=> Keyed(d))
                                  /\ Arguments(d)' = Arguments(d)
         /\ \A s, args, life : \A d \in Calls : Evidence(d, s, args, life) => Evidence(d, s, args, life)'
  BY DEF WritesInv, WritesShape, Evidence, Executing, Keyed, Arguments

\* What a call may become without the table being touched: it arrives or is
\* answered, or it goes on executing as the request it was.
MayBecome(c, w) ==
  /\ DOMAIN w = Fields /\ w.life \in Nat /\ w.life <= restarts
  /\ w.pc \notin {"idle", "answered"} => w.life = restarts
  /\ w.pc \in {"idle", "lookup"} => w.outcome = "none"
  /\ w.outcome = "replayed" =>
       w.pc = "answered" /\ \E d \in Calls : Evidence(d, w.slot, <<w.plan, w.seen, w.dry>>, w.life)
  /\ \/ w.pc \in {"lookup", "answered"} /\ w.outcome \in {"none", "refused", "replayed"}
     \/ /\ w.pc \in {"prepare", "commit", "settle"}
        /\ w.slot = call[c].slot /\ w.dry = call[c].dry /\ w.plan = call[c].plan /\ w.seen = call[c].seen
        /\ Executing(c) \/ ~ Keyed(c)

LEMMA CallChange ==
  ASSUME WritesInv, NEW c \in Calls, NEW w, call[c].pc # "answered", MayBecome(c, w),
         call' = [call EXCEPT ![c] = w], UNCHANGED <<entry, restarts>>, TxHeld'
  PROVE  WritesInv'
<1> USE DEF WritesInv, MayBecome
<1>1. /\ DOMAIN call' = Calls /\ call'[c] = w /\ \A d \in Calls \ {c} : call'[d] = call[d]
      /\ \A d \in Calls \ {c} : (Executing(d)' <=> Executing(d)) /\ (Keyed(d)' <=> Keyed(d))
                               /\ Arguments(d)' = Arguments(d)
      /\ \A s, args, life : \A d \in Calls : Evidence(d, s, args, life) => Evidence(d, s, args, life)'
  BY AnswersStand
<1>2. WritesShape'
  BY <1>1 DEF WritesShape
<1>3. TxHeld'
  OBVIOUS
<1>4. /\ Arguments(c)' = <<w.plan, w.seen, w.dry>>
      /\ Executing(c)' /\ Keyed(c)' => /\ Executing(c) /\ Keyed(c) /\ Arguments(c)' = Arguments(c)
                                       /\ call'[c].slot = call[c].slot
  BY <1>1 DEF Executing, Keyed, Arguments
<1>5. EntryIsOwn'
  BY <1>1, <1>4 DEF EntryIsOwn
<1>6. UnknownStays'
  BY <1>1, <1>4 DEF UnknownStays, Executing
<1>7. CompleteIsDone'
  BY <1>1 DEF CompleteIsDone
<1>8. ReplayIsDone'
  <2>1. ASSUME NEW d \in Calls \ {c}, call'[d].outcome = "replayed"
        PROVE  /\ call'[d].pc = "answered"
               /\ (\E e \in Calls : Evidence(e, call[d].slot, Arguments(d), call[d].life))'
    BY <1>1, <2>1 DEF ReplayIsDone
  <2>2. ASSUME call'[c].outcome = "replayed"
        PROVE  /\ call'[c].pc = "answered"
               /\ (\E e \in Calls : Evidence(e, call[c].slot, Arguments(c), call[c].life))'
    BY <1>1, <1>4, <2>2
  <2> QED BY <2>1, <2>2 DEF ReplayIsDone
<1> QED BY <1>2, <1>3, <1>5, <1>6, <1>7, <1>8

LEMMA CallStep ==
  ASSUME WritesInv, NEW c \in Calls, NEW w, call[c].pc \notin {"answered", "commit"}, MayBecome(c, w),
         call' = [call EXCEPT ![c] = w], UNCHANGED <<entry, tx, restarts>>
  PROVE  WritesInv'
<1>1. TxHeld'
  BY DEF WritesInv, WritesShape, TxHeld
<1> QED BY <1>1, CallChange

LEMMA ArriveKeeps ==
  ASSUME WritesInv, NEW c \in Calls, Arrive(c)
  PROVE  WritesInv'
<1>1. call[c].pc = "idle" /\ UNCHANGED <<entry, tx, restarts>> /\ restarts \in Nat
  BY DEF Arrive, replayVars, WritesInv, WritesShape
<1>2. PICK r \in Requests :
        call' = [call EXCEPT ![c] = [NoCall EXCEPT !.pc = "lookup", !.kind = r.kind,
                  !.slot = IF r.key = NoKey THEN NoSlot ELSE <<r.kind, r.key>>,
                  !.dry = r.dry, !.plan = r.plan, !.seen = files, !.life = restarts]]
  BY DEF Arrive
<1> DEFINE w == [NoCall EXCEPT !.pc = "lookup", !.kind = r.kind,
                  !.slot = IF r.key = NoKey THEN NoSlot ELSE <<r.kind, r.key>>,
                  !.dry = r.dry, !.plan = r.plan, !.seen = files, !.life = restarts]
<1>3. DOMAIN w = Fields /\ w.pc = "lookup" /\ w.outcome = "none" /\ w.life = restarts
  BY DEF NoCall, Fields
<1>4. call' = [call EXCEPT ![c] = w]
  BY <1>2
<1> HIDE DEF w
<1>5. MayBecome(c, w)
  BY <1>1, <1>3 DEF MayBecome
<1> QED BY <1>1, <1>4, <1>5, CallStep

LEMMA RepeatKeeps ==
  ASSUME WritesInv, NEW c \in Calls, NEW d \in Calls \ {c}, Repeat(c, d)
  PROVE  WritesInv'
<1> DEFINE w == [call[d] EXCEPT !.pc = "lookup", !.outcome = "none", !.base = NoCall.base, !.life = restarts]
<1>1. call[c].pc = "idle" /\ UNCHANGED <<entry, tx, restarts>> /\ restarts \in Nat
  BY DEF Repeat, replayVars, WritesInv, WritesShape
<1>2. call' = [call EXCEPT ![c] = w]
  BY DEF Repeat
<1>3. DOMAIN w = Fields /\ w.pc = "lookup" /\ w.outcome = "none" /\ w.life = restarts
  BY DEF WritesInv, WritesShape, Fields
<1> HIDE DEF w
<1>4. MayBecome(c, w)
  BY <1>1, <1>3 DEF MayBecome
<1> QED BY <1>1, <1>2, <1>4, CallStep

LEMMA KnownKeeps ==
  ASSUME WritesInv, NEW c \in Calls, LookupKnown(c)
  PROVE  WritesInv'
<1> DEFINE s == call[c].slot
           complete == entry[s].args = Arguments(c) /\ entry[s].state = "complete"
           w == [call[c] EXCEPT !.pc = "answered", !.outcome = IF complete THEN "replayed" ELSE "refused"]
<1>1. call[c].pc = "lookup" /\ s \in Slots /\ UNCHANGED <<entry, tx, restarts>>
  BY DEF LookupKnown
<1>2. call[c].life = restarts /\ restarts \in Nat /\ DOMAIN call[c] = Fields
  BY <1>1 DEF WritesInv, WritesShape
<1>3. call' = [call EXCEPT ![c] = w]
  BY DEF LookupKnown, Answered, WritesInv, WritesShape
<1>4. complete => \E d \in Calls : Evidence(d, s, Arguments(c), restarts)
  BY <1>1 DEF WritesInv, CompleteIsDone
<1>5. /\ DOMAIN w = Fields /\ w.pc = "answered" /\ w.life = restarts /\ w.slot = s
      /\ <<w.plan, w.seen, w.dry>> = Arguments(c)
      /\ w.outcome = IF complete THEN "replayed" ELSE "refused"
  BY <1>2 DEF Fields, Arguments
<1> HIDE DEF w, s, complete
<1>6. MayBecome(c, w)
  BY <1>2, <1>4, <1>5 DEF MayBecome
<1> QED BY <1>1, <1>3, <1>6, CallStep

LEMMA PrepareKeeps ==
  ASSUME WritesInv, NEW c \in Calls, PrepareChanges(c) \/ PreparePatch(c)
  PROVE  WritesInv'
<1>1. call[c].pc = "prepare" /\ UNCHANGED <<entry, tx, restarts>>
  BY DEF PrepareChanges, PreparePatch, replayVars
<1>2. call[c].life = restarts /\ restarts \in Nat /\ DOMAIN call[c] = Fields /\ call[c].outcome # "replayed"
  BY <1>1 DEF WritesInv, WritesShape, ReplayIsDone
<1> DEFINE base == [p \in Paths |-> IF p \in Named(c) THEN files[p] ELSE Absent]
           v == [call[c] EXCEPT !.pc = "commit", !.base = base]
           w(why) == [call[c] EXCEPT !.pc = "settle", !.outcome = why]
<1>3. \/ call' = [call EXCEPT ![c] = v]
      \/ \E why \in {"conflict", "io_error"} : call' = [call EXCEPT ![c] = w(why)]
  <2>1. Prepared(c) = [call EXCEPT ![c] = v] /\ \A why : Raised(c, why) = [call EXCEPT ![c] = w(why)]
    BY DEF Prepared, Raised, WritesInv, WritesShape
  <2> HIDE DEF v, w
  <2> QED BY <2>1 DEF PrepareChanges, PreparePatch
<1>4. /\ DOMAIN v = Fields /\ v.pc = "commit" /\ v.outcome = call[c].outcome /\ v.life = restarts
      /\ v.slot = call[c].slot /\ v.dry = call[c].dry /\ v.plan = call[c].plan /\ v.seen = call[c].seen
  BY <1>2 DEF Fields
<1>5. \A why : /\ DOMAIN w(why) = Fields /\ w(why).pc = "settle" /\ w(why).outcome = why
               /\ w(why).life = restarts /\ w(why).slot = call[c].slot /\ w(why).dry = call[c].dry
               /\ w(why).plan = call[c].plan /\ w(why).seen = call[c].seen
  BY <1>2 DEF Fields
<1>6. Executing(c)
  BY <1>1 DEF Executing
<1> HIDE DEF v, w, base
<1>7. CASE call' = [call EXCEPT ![c] = v]
  <2>1. MayBecome(c, v)
    BY <1>2, <1>4, <1>6 DEF MayBecome
  <2> QED BY <1>1, <1>7, <2>1, CallStep
<1>8. ASSUME NEW why \in {"conflict", "io_error"}, call' = [call EXCEPT ![c] = w(why)]
      PROVE  WritesInv'
  <2>1. MayBecome(c, w(why))
    BY <1>2, <1>5, <1>6 DEF MayBecome
  <2> QED BY <1>1, <1>8, <2>1, CallStep
<1> QED BY <1>3, <1>7, <1>8

\* The slots that make room are those of complete calls.
LEMMA NewKeeps ==
  ASSUME WritesInv, NEW c \in Calls, LookupNew(c)
  PROVE  WritesInv'
<1> DEFINE s == call[c].slot
           full == Len(table) >= Capacity
           gone == IF full THEN {table[i] : i \in Removable} ELSE {}
           v == [call[c] EXCEPT !.pc = "prepare"]
           w == [call[c] EXCEPT !.pc = "answered", !.outcome = "refused"]
<1>1. /\ call[c].pc = "lookup" /\ UNCHANGED <<tx, restarts>> /\ (s \in Slots => entry[s].state = "none")
      /\ \/ ~ Keyed(c) /\ call' = [call EXCEPT ![c].pc = "prepare"] /\ UNCHANGED entry
         \/ call' = Answered(c, "refused") /\ UNCHANGED entry
         \/ /\ Keyed(c) /\ call' = [call EXCEPT ![c].pc = "prepare"]
            /\ entry' = [t \in Slots |-> IF t = s THEN [args |-> Arguments(c), state |-> "pending"]
                                        ELSE IF t \in gone THEN NoEntry ELSE entry[t]]
  BY DEF LookupNew, Keyed, replayVars
<1>2. /\ call[c].life = restarts /\ restarts \in Nat /\ DOMAIN call[c] = Fields /\ call[c].outcome = "none"
      /\ DOMAIN call = Calls
  BY <1>1 DEF WritesInv, WritesShape
<1>3. /\ [call EXCEPT ![c].pc = "prepare"] = [call EXCEPT ![c] = v]
      /\ Answered(c, "refused") = [call EXCEPT ![c] = w]
  BY <1>2 DEF Answered
<1>4. /\ DOMAIN v = Fields /\ v.pc = "prepare" /\ v.outcome = "none" /\ v.life = restarts
      /\ v.slot = s /\ v.dry = call[c].dry /\ v.plan = call[c].plan /\ v.seen = call[c].seen
  BY <1>2 DEF Fields
<1>5. DOMAIN w = Fields /\ w.pc = "answered" /\ w.outcome = "refused" /\ w.life = restarts
  BY <1>2 DEF Fields
<1>6. \A t \in gone : entry[t].state = "complete"
  BY DEF Removable
<1> HIDE DEF v, w, gone
<1>7. CASE ~ Keyed(c) /\ call' = [call EXCEPT ![c] = v] /\ UNCHANGED entry
  <2>1. MayBecome(c, v)
    BY <1>2, <1>4, <1>7 DEF MayBecome
  <2> QED BY <1>1, <1>7, <2>1, CallStep
<1>8. CASE call' = [call EXCEPT ![c] = w] /\ UNCHANGED entry
  <2>1. MayBecome(c, w)
    BY <1>2, <1>5 DEF MayBecome
  <2> QED BY <1>1, <1>8, <2>1, CallStep
<1>9. CASE /\ Keyed(c) /\ call' = [call EXCEPT ![c] = v]
           /\ entry' = [t \in Slots |-> IF t = s THEN [args |-> Arguments(c), state |-> "pending"]
                                       ELSE IF t \in gone THEN NoEntry ELSE entry[t]]
  <2> USE DEF WritesInv
  <2>1. /\ DOMAIN call' = Calls /\ call'[c] = v /\ \A d \in Calls \ {c} : call'[d] = call[d]
        /\ \A d \in Calls \ {c} : (Executing(d)' <=> Executing(d)) /\ (Keyed(d)' <=> Keyed(d))
                                 /\ Arguments(d)' = Arguments(d)
        /\ \A t, args, life : \A d \in Calls : Evidence(d, t, args, life) => Evidence(d, t, args, life)'
    BY <1>1, <1>9, AnswersStand
  <2>2. Arguments(c)' = Arguments(c) /\ call'[c].slot = s /\ s \in Slots /\ call'[c].outcome = "none"
    BY <1>4, <1>9, <2>1 DEF Arguments, Keyed
  <2>3. \A t \in Slots : entry[t].state \in {"pending", "unknown"} => entry'[t] = entry[t]
    BY <1>1, <1>6, <1>9, <2>2
  <2>4. entry'[s].state = "pending" /\ entry'[s].args = Arguments(c)
    BY <1>9, <2>2
  <2>5. \A t \in Slots : entry'[t].state = "complete" => entry'[t] = entry[t]
    BY <1>9 DEF NoEntry
  <2>6. WritesShape'
    <3>1. DOMAIN entry' = Slots /\ \A t \in Slots : DOMAIN entry'[t] = {"args", "state"}
      BY <1>9 DEF WritesShape, NoEntry
    <3> QED BY <1>1, <1>2, <1>4, <2>1, <3>1 DEF WritesShape
  <2>7. TxHeld'
    BY <1>1, <2>1 DEF TxHeld
  <2>8. EntryIsOwn'
    <3>1. ASSUME NEW d \in Calls \ {c}, Executing(d)', Keyed(d)'
          PROVE  /\ call'[d].slot # s
                 /\ entry'[call'[d].slot].state = "pending" /\ entry'[call'[d].slot].args = Arguments(d)'
                 /\ \A e \in Calls \ {c} : Executing(e)' /\ Keyed(e)' /\ call'[e].slot = call'[d].slot => e = d
      <4>1. Executing(d) /\ Keyed(d) /\ call'[d].slot = call[d].slot
        BY <2>1, <3>1
      <4>2. entry[call[d].slot].state = "pending" /\ entry[call[d].slot].args = Arguments(d) /\ call[d].slot \in Slots
        BY <4>1 DEF EntryIsOwn, Keyed
      <4>3. \A e \in Calls : Executing(e) /\ Keyed(e) /\ call[e].slot = call[d].slot => e = d
        BY <4>1 DEF EntryIsOwn
      <4> QED BY <1>1, <2>1, <2>2, <2>3, <4>1, <4>2, <4>3
    <3> QED BY <2>2, <2>4, <3>1 DEF EntryIsOwn
  <2>9. UnknownStays'
    BY <1>1, <2>1, <2>2, <2>3 DEF UnknownStays, Keyed
  <2>10. CompleteIsDone'
    BY <1>1, <2>1, <2>5 DEF CompleteIsDone
  <2>11. ReplayIsDone'
    <3>1. ASSUME NEW d \in Calls \ {c}, call'[d].outcome = "replayed"
          PROVE  /\ call'[d].pc = "answered"
                 /\ (\E e \in Calls : Evidence(e, call[d].slot, Arguments(d), call[d].life))'
      BY <2>1, <3>1 DEF ReplayIsDone
    <3> QED BY <2>2, <3>1 DEF ReplayIsDone
  <2> QED BY <2>6, <2>7, <2>8, <2>9, <2>10, <2>11
<1> QED BY <1>1, <1>3, <1>7, <1>8, <1>9

LEMMA SettleKeeps ==
  ASSUME WritesInv, NEW c \in Calls, Settle(c)
  PROVE  WritesInv'
<1> DEFINE s == call[c].slot
           w == [call[c] EXCEPT !.pc = "answered"]
<1>1. call[c].pc = "settle" /\ UNCHANGED <<tx, restarts>>
  BY DEF Settle
<1>2. /\ call[c].life = restarts /\ restarts \in Nat /\ DOMAIN call[c] = Fields /\ DOMAIN call = Calls
      /\ call[c].outcome # "replayed" /\ DOMAIN entry = Slots
      /\ \A t \in Slots : DOMAIN entry[t] = {"args", "state"}
  BY <1>1 DEF WritesInv, WritesShape, ReplayIsDone
<1>3. call' = [call EXCEPT ![c] = w]
  BY <1>2 DEF Settle
<1>4. /\ DOMAIN w = Fields /\ w.pc = "answered" /\ w.outcome = call[c].outcome /\ w.life = restarts
      /\ w.slot = s /\ w.dry = call[c].dry /\ w.plan = call[c].plan /\ w.seen = call[c].seen
  BY <1>2 DEF Fields
<1>5. Keyed(c) => /\ s \in Slots /\ ~ call[c].dry /\ entry[s].state = "pending" /\ entry[s].args = Arguments(c)
                  /\ \A d \in Calls \ {c} : ~ (Executing(d) /\ Keyed(d) /\ call[d].slot = s)
  BY <1>1 DEF WritesInv, EntryIsOwn, Executing, Keyed
<1> HIDE DEF w
<1> USE DEF WritesInv
<1>6. /\ DOMAIN call' = Calls /\ call'[c] = w /\ \A d \in Calls \ {c} : call'[d] = call[d]
      /\ \A d \in Calls \ {c} : (Executing(d)' <=> Executing(d)) /\ (Keyed(d)' <=> Keyed(d))
                               /\ Arguments(d)' = Arguments(d)
      /\ \A t, args, life : \A d \in Calls : Evidence(d, t, args, life) => Evidence(d, t, args, life)'
  BY <1>1, <1>3, AnswersStand
<1>7. ~ Executing(c)' /\ Arguments(c)' = Arguments(c) /\ (Keyed(c)' <=> Keyed(c))
  BY <1>4, <1>6 DEF Executing, Arguments, Keyed
<1>8. /\ DOMAIN entry' = Slots /\ \A t \in Slots : DOMAIN entry'[t] = {"args", "state"}
      /\ \A t \in Slots : ~ (Keyed(c) /\ t = s) => entry'[t] = entry[t]
      /\ Keyed(c) => /\ entry'[s].state = "complete" => /\ entry'[s].args = Arguments(c)
                                                       /\ call[c].outcome = "done"
                     /\ call[c].outcome # "conflict" => entry'[s].state \in {"complete", "unknown"}
  <2>1. CASE ~ Keyed(c) /\ UNCHANGED entry
    BY <1>2, <2>1
  <2>2. CASE Keyed(c) /\ call[c].outcome = "conflict" /\ entry' = [entry EXCEPT ![s] = NoEntry]
    BY <1>2, <1>5, <2>2 DEF NoEntry
  <2>3. ASSUME NEW state \in {"complete", "unknown"}, entry' = [entry EXCEPT ![s].state = state], Keyed(c),
               state = "complete" => call[c].outcome = "done"
        PROVE  /\ DOMAIN entry' = Slots /\ \A t \in Slots : DOMAIN entry'[t] = {"args", "state"}
               /\ \A t \in Slots : t # s => entry'[t] = entry[t]
               /\ entry'[s].state = "complete" => entry'[s].args = Arguments(c) /\ call[c].outcome = "done"
               /\ entry'[s].state \in {"complete", "unknown"}
    <3>1. entry'[s] = [entry[s] EXCEPT !.state = state]
      BY <1>2, <1>5, <2>3
    <3>2. entry'[s].state = state /\ entry'[s].args = entry[s].args /\ DOMAIN entry'[s] = {"args", "state"}
      BY <1>2, <1>5, <2>3, <3>1
    <3>3. DOMAIN entry' = Slots /\ \A t \in Slots \ {s} : entry'[t] = entry[t]
      BY <1>2, <2>3
    <3>4. \A t \in Slots : DOMAIN entry'[t] = {"args", "state"}
      BY <1>2, <3>2, <3>3
    <3> QED BY <1>2, <1>5, <2>3, <3>2, <3>3, <3>4
  <2>4. CASE Keyed(c) /\ \E state \in {"complete", "unknown"} :
                           /\ entry' = [entry EXCEPT ![s].state = state]
                           /\ state = "complete" => call[c].outcome = "done"
    BY <2>3, <2>4
  <2>5. \/ ~ Keyed(c) /\ UNCHANGED entry
        \/ Keyed(c) /\ call[c].outcome = "conflict" /\ entry' = [entry EXCEPT ![s] = NoEntry]
        \/ Keyed(c) /\ \E state \in {"complete", "unknown"} :
                          /\ entry' = [entry EXCEPT ![s].state = state]
                          /\ state = "complete" => call[c].outcome = "done"
    BY DEF Settle, Keyed, replayVars
  <2> HIDE DEF s, WritesInv
  <2> QED BY <2>1, <2>2, <2>4, <2>5
<1>9. WritesShape'
  BY <1>1, <1>2, <1>4, <1>6, <1>8 DEF WritesShape
<1>10. TxHeld'
  BY <1>1, <1>6 DEF TxHeld
<1>11. EntryIsOwn'
  <2>1. ASSUME NEW d \in Calls \ {c}, Executing(d)', Keyed(d)'
        PROVE  /\ entry'[call'[d].slot].state = "pending" /\ entry'[call'[d].slot].args = Arguments(d)'
               /\ \A e \in Calls \ {c} : Executing(e)' /\ Keyed(e)' /\ call'[e].slot = call'[d].slot => e = d
    <3>1. Executing(d) /\ Keyed(d) /\ call'[d].slot = call[d].slot /\ call[d].slot \in Slots
      BY <1>6, <2>1 DEF Keyed
    <3>2. /\ entry[call[d].slot].state = "pending" /\ entry[call[d].slot].args = Arguments(d)
          /\ \A e \in Calls : Executing(e) /\ Keyed(e) /\ call[e].slot = call[d].slot => e = d
      BY <3>1 DEF EntryIsOwn
    <3>3. entry'[call[d].slot] = entry[call[d].slot]
      BY <1>5, <1>8, <3>1
    <3> QED BY <1>6, <3>1, <3>2, <3>3
  <2> QED BY <1>7, <2>1 DEF EntryIsOwn
<1>12. UnknownStays'
  <2>1. ASSUME NEW d \in Calls \ {c}, call'[d].outcome \in {"io_error", "rollback_failed"}, Keyed(d)',
               call'[d].life = restarts'
        PROVE  Executing(d)' \/ entry'[call'[d].slot].state = "unknown"
    <3>1. call'[d] = call[d] /\ Keyed(d) /\ call[d].slot \in Slots
      BY <1>6, <2>1 DEF Keyed
    <3>2. Executing(d) \/ entry[call[d].slot].state = "unknown"
      BY <1>1, <2>1, <3>1 DEF UnknownStays
    <3>3. CASE entry[call[d].slot].state = "unknown"
      BY <1>5, <1>8, <3>1, <3>3
    <3> QED BY <1>6, <3>2, <3>3
  <2>2. ASSUME call'[c].outcome \in {"io_error", "rollback_failed"}, Keyed(c)'
        PROVE  entry'[call'[c].slot].state = "unknown"
    BY <1>4, <1>6, <1>7, <1>8, <2>2
  <2> QED BY <2>1, <2>2 DEF UnknownStays
<1>13. CompleteIsDone'
  <2>1. ASSUME NEW t \in Slots, entry'[t].state = "complete", ~ (Keyed(c) /\ t = s)
        PROVE  (\E d \in Calls : Evidence(d, t, entry[t].args, restarts))'
    BY <1>1, <1>6, <1>8, <2>1 DEF CompleteIsDone
  <2>2. ASSUME Keyed(c), entry'[s].state = "complete"
        PROVE  Evidence(c, s, entry[s].args, restarts)'
    BY <1>1, <1>4, <1>5, <1>6, <1>7, <1>8, <2>2 DEF Evidence
  <2>3. s' = s
    BY <1>4, <1>6
  <2> QED BY <2>1, <2>2, <2>3 DEF CompleteIsDone
<1>14. ReplayIsDone'
  <2>1. ASSUME NEW d \in Calls \ {c}, call'[d].outcome = "replayed"
        PROVE  /\ call'[d].pc = "answered"
               /\ (\E e \in Calls : Evidence(e, call[d].slot, Arguments(d), call[d].life))'
    BY <1>6, <2>1 DEF ReplayIsDone
  <2>2. call'[c].outcome # "replayed"
    BY <1>2, <1>4, <1>6
  <2> QED BY <2>1, <2>2 DEF ReplayIsDone
<1> QED BY <1>9, <1>10, <1>11, <1>12, <1>13, <1>14

LEMMA ReleaseKeeps ==
  ASSUME WritesInv, Release
  PROVE  WritesInv'
<1> DEFINE c == tx.owner
           w == [call[c] EXCEPT !.pc = "settle", !.outcome = tx.why]
<1>1. c \in Calls /\ call[c].pc = "commit" /\ tx.why \in Whys
  BY DEF WritesInv, TxHeld, Release, Running
<1>2. /\ call[c].life = restarts /\ restarts \in Nat /\ DOMAIN call[c] = Fields /\ DOMAIN call = Calls
  BY <1>1 DEF WritesInv, WritesShape
<1>3. call' = [call EXCEPT ![c] = w] /\ UNCHANGED <<entry, restarts>>
  BY <1>2 DEF Release, replayVars
<1>4. /\ DOMAIN w = Fields /\ w.pc = "settle" /\ w.outcome = tx.why /\ w.life = restarts
      /\ w.slot = call[c].slot /\ w.dry = call[c].dry /\ w.plan = call[c].plan /\ w.seen = call[c].seen
  BY <1>2 DEF Fields
<1>5. TxHeld'
  BY DEF Release, TxHeld, NoTx, Whys
<1> HIDE DEF w, c
<1>6. MayBecome(c, w)
  BY <1>1, <1>2, <1>4 DEF MayBecome, Whys, Executing
<1> QED BY <1>1, <1>3, <1>5, <1>6, CallChange

\* After a restart nothing of what was remembered, and no call, is of this life.
LEMMA RestartKeeps ==
  ASSUME WritesInv, Restart
  PROVE  WritesInv'
<1> USE DEF WritesInv
<1>1. /\ restarts' = restarts + 1 /\ restarts \in Nat /\ entry' = [s \in Slots |-> NoEntry]
      /\ tx' = NoTx /\ DOMAIN call' = Calls
      /\ \A c \in Calls : call'[c] = IF call[c].pc \in {"idle", "answered"} THEN call[c]
                                    ELSE [call[c] EXCEPT !.pc = "answered", !.outcome = "crashed"]
  BY DEF Restart, WritesShape
<1>2. \A c \in Calls : /\ DOMAIN call[c] = Fields /\ call[c].life \in Nat /\ call[c].life <= restarts
                       /\ call[c].pc = "idle" => call[c].outcome = "none"
  BY DEF WritesShape
<1>3. \A c \in Calls : /\ DOMAIN call'[c] = Fields /\ call'[c].life = call[c].life
                       /\ call'[c].pc \in {"idle", "answered"}
                       /\ call'[c].pc = "idle" => call'[c].outcome = "none"
                       /\ call'[c].outcome = "replayed" => call[c].outcome = "replayed" /\ call'[c] = call[c]
                       /\ call[c].pc = "answered" => call'[c] = call[c]
  BY <1>1, <1>2 DEF Fields
<1>4. \A s \in Slots : entry'[s].state = "none" /\ DOMAIN entry'[s] = {"args", "state"}
  BY <1>1 DEF NoEntry
<1>5. \A c \in Calls : call'[c].life \in Nat /\ call'[c].life < restarts' /\ call'[c].life <= restarts'
  <2> HIDE DEF WritesInv
  <2> SUFFICES ASSUME NEW c \in Calls
               PROVE  call'[c].life \in Nat /\ call'[c].life < restarts' /\ call'[c].life <= restarts'
    OBVIOUS
  <2>1. restarts' = restarts + 1 /\ restarts \in Nat
    BY <1>1
  <2>2. call'[c].life = call[c].life /\ call[c].life \in Nat /\ call[c].life <= restarts
    BY <1>2, <1>3
  <2> QED BY <2>1, <2>2
<1>11. WritesShape'
  <2>1. restarts' \in Nat
    <3>1. restarts' = restarts + 1 /\ restarts \in Nat
      BY <1>1
    <3> HIDE DEF WritesInv
    <3> QED BY <3>1
  <2> QED BY <1>1, <1>3, <1>4, <1>5, <2>1 DEF WritesShape
<1>6. TxHeld'
  BY <1>1 DEF TxHeld, NoTx, Whys
<1>7. EntryIsOwn'
  BY <1>3 DEF EntryIsOwn, Executing
<1>8. UnknownStays'
  <2>1. \A c \in Calls : call'[c].life # restarts'
    <3> SUFFICES ASSUME NEW c \in Calls, call'[c].life = restarts' PROVE FALSE
      OBVIOUS
    <3> QED BY <1>5
  <2> QED BY <2>1 DEF UnknownStays
<1>9. CompleteIsDone'
  BY <1>4 DEF CompleteIsDone
<1>10. ReplayIsDone'
  <2>1. ASSUME NEW c \in Calls, call'[c].outcome = "replayed"
        PROVE  /\ call'[c].pc = "answered"
               /\ (\E d \in Calls : Evidence(d, call[c].slot, Arguments(c), call[c].life))'
    <3>1. call'[c] = call[c] /\ call[c].pc = "answered"
      BY <1>3, <2>1 DEF ReplayIsDone
    <3>2. PICK d \in Calls : Evidence(d, call[c].slot, Arguments(c), call[c].life)
      BY <1>3, <2>1 DEF ReplayIsDone
    <3>3. call'[d] = call[d]
      BY <1>3, <3>2 DEF Evidence
    <3> QED BY <3>1, <3>2, <3>3 DEF Evidence, Arguments
  <2> QED BY <2>1 DEF ReplayIsDone
<1> QED BY <1>11, <1>6, <1>7, <1>8, <1>9, <1>10

----------------------------------------------------------------------------
(* The theorems.                                                           *)

LEMMA WritesInvInit == WritesInit => WritesInv
<1> SUFFICES ASSUME WritesInit PROVE WritesInv
  OBVIOUS
<1>1. /\ restarts = 0 /\ entry = [s \in Slots |-> NoEntry] /\ call = [c \in Calls |-> NoCall] /\ tx = NoTx
  BY DEF WritesInit
<1>2. DOMAIN NoCall = Fields /\ NoCall.pc = "idle" /\ NoCall.outcome = "none" /\ NoCall.life = 0
  BY DEF NoCall, Fields
<1>3. NoEntry.state = "none" /\ DOMAIN NoEntry = {"args", "state"}
  BY DEF NoEntry
<1>4. {"owner", "pc", "why"} \subseteq DOMAIN tx /\ tx.why \in Whys /\ tx.pc = "free"
  BY <1>1 DEF NoTx, Whys
<1> HIDE DEF NoCall
<1> QED BY <1>1, <1>2, <1>3, <1>4 DEF WritesInv, WritesShape, TxHeld, EntryIsOwn, UnknownStays,
        CompleteIsDone, ReplayIsDone, Executing

LEMMA WritesInvNext == WritesInv /\ [WritesNext]_writesVars => WritesInv'
<1> SUFFICES ASSUME WritesInv, [WritesNext]_writesVars PROVE WritesInv'
  OBVIOUS
<1>1. ASSUME NEW c \in Calls, LookupKnown(c) \/ LookupNew(c) \/ Settle(c) \/ PrepareChanges(c) \/ PreparePatch(c)
                              \/ Acquire(c) \/ Arrive(c)
      PROVE  WritesInv'
  BY <1>1, KnownKeeps, NewKeeps, SettleKeeps, PrepareKeeps, AcquireKeeps, ArriveKeeps
<1>2. ASSUME NEW c \in Calls, NEW d \in Calls \ {c}, Repeat(c, d)
      PROVE  WritesInv'
  BY <1>2, RepeatKeeps
<1>3. ASSUME NEW p \in Paths, ExternalWrite(p) \/ ExternalBackupWrite(p)
      PROVE  WritesInv'
  BY <1>3, ExternalKeeps
<1>4. CASE Stage \/ CheckItem \/ BackUp \/ Install \/ Confirm \/ FinalCheck \/ Undo \/ RemoveInstalled
           \/ Restore \/ Cleanup
  BY <1>4, TxStep
<1>5. CASE Release
  BY <1>5, ReleaseKeeps
<1>6. CASE Restart
  BY <1>6, RestartKeeps
<1>7. CASE UNCHANGED writesVars
  <2>1. TxHeld'
    BY <1>7 DEF writesVars, WritesInv, TxHeld
  <2> QED BY <1>7, <2>1, TransactionKeeps DEF writesVars
<1> QED BY <1>1, <1>2, <1>3, <1>4, <1>5, <1>6, <1>7 DEF WritesNext, ServerStep

LEMMA WritesKeep == WritesSpec => []WritesInv
  BY WritesInvInit, WritesInvNext, PTL DEF WritesSpec

\* Whatever is answered as a replay (NativeReplay.execute) was written to disk,
\* in this life of the process, by a call with the same key and arguments.
THEOREM EvidenceIsReal == WritesSpec => []ReplayIsEvidence
<1>1. WritesInv => ReplayIsEvidence
  BY DEF WritesInv, ReplayIsDone, ReplayIsEvidence, Evidence
<1> QED BY <1>1, WritesKeep, PTL

\* A call that is looked up begins to execute only as an unknown one.
LEMMA OnlyUnknownStarts ==
  ASSUME WritesInv, [WritesNext]_writesVars, NEW c \in Calls, call[c].pc = "lookup", Executing(c)'
  PROVE  LookupNew(c)
<1> USE DEF Executing
<1>1. DOMAIN call = Calls /\ DOMAIN call[c] = Fields
  BY DEF WritesInv, WritesShape
<1>2. ASSUME NEW d \in Calls, LookupKnown(d) \/ LookupNew(d), d # c
      PROVE  FALSE
  BY <1>1, <1>2 DEF LookupKnown, LookupNew, Answered
<1>3. ASSUME NEW d \in Calls, Settle(d) \/ PrepareChanges(d) \/ PreparePatch(d) \/ Acquire(d) \/ Arrive(d)
      PROVE  FALSE
  BY <1>1, <1>3 DEF Settle, PrepareChanges, PreparePatch, Acquire, Arrive, Prepared, Raised
<1>4. ASSUME NEW d \in Calls, NEW e \in Calls, Repeat(d, e)
      PROVE  FALSE
  BY <1>1, <1>4 DEF Repeat
<1>5. ~ LookupKnown(c)
  BY <1>1 DEF LookupKnown, Answered, Fields
<1>6. ASSUME NEW p \in Paths, ExternalWrite(p) \/ ExternalBackupWrite(p)
      PROVE  FALSE
  BY <1>6 DEF ExternalWrite, ExternalBackupWrite
<1>7. ~ (Stage \/ CheckItem \/ BackUp \/ Install \/ Confirm \/ FinalCheck \/ Undo \/ RemoveInstalled \/ Restore
         \/ Cleanup)
  BY DEF Stage, CheckItem, BackUp, Install, Confirm, FinalCheck, Undo, RemoveInstalled, Restore, Cleanup
<1>8. ~ Release
  <2>1. Release => tx.owner # c
    BY DEF Release, Running, WritesInv, TxHeld
  <2> QED BY <1>1, <2>1 DEF Release
<1>9. ASSUME Restart PROVE FALSE
  <2>1. call'[c] = [call[c] EXCEPT !.pc = "answered", !.outcome = "crashed"]
    BY <1>9 DEF Restart
  <2> QED BY <1>1, <2>1 DEF Fields
<1>10. ~ UNCHANGED writesVars
  BY DEF writesVars
<1> QED BY <1>2, <1>3, <1>4, <1>5, <1>6, <1>7, <1>8, <1>9, <1>10 DEF WritesNext, ServerStep

\* However full the table of remembered calls is, a keyed write never starts
\* while another with its key is under way or has an unknown outcome.
THEOREM NeverRepeated == WritesSpec => UncertainNeverRepeated
<1> DEFINE Once == \A c \in Calls : call[c].pc = "lookup" /\ Executing(c)' /\ call[c].slot \in Slots /\ ~ call[c].dry =>
                     ~ \E d \in Calls \ {c} : call[d].slot = call[c].slot /\ Uncertain(d)
<1>1. WritesInv /\ [WritesNext]_writesVars => Once
  <2> SUFFICES ASSUME WritesInv, [WritesNext]_writesVars, NEW c \in Calls, call[c].pc = "lookup", Executing(c)',
                      call[c].slot \in Slots, NEW d \in Calls \ {c}, call[d].slot = call[c].slot, Uncertain(d)
               PROVE  FALSE
    OBVIOUS
  <2>1. entry[call[c].slot].state = "none"
    BY OnlyUnknownStarts DEF LookupNew
  <2>2. Keyed(d) /\ call[d].life = restarts
    BY DEF Uncertain, Keyed
  <2>3. CASE Executing(d)
    BY <2>1, <2>2, <2>3 DEF WritesInv, EntryIsOwn
  <2>4. CASE call[d].outcome \in {"io_error", "rollback_failed"}
    BY <2>1, <2>2, <2>3, <2>4 DEF WritesInv, UnknownStays
  <2> QED BY <2>3, <2>4 DEF Uncertain
<1> QED BY <1>1, WritesKeep, PTL DEF WritesSpec, UncertainNeverRepeated

----------------------------------------------------------------------------
(* Reading a file page by page.  Lines are found by counting line feeds, so *)
(* what is said of them rests on inductions over the bytes of the text.     *)

\* Induction on a set of natural numbers.
LEMMA Induction ==
  ASSUME NEW S, 0 \in S, \A n \in Nat : n \in S => n + 1 \in S
  PROVE  Nat \subseteq S
<1> DEFINE T == Nat \ S
           Less == {pair \in Nat \X Nat : pair[1] < pair[2]}
<1>1. IsWellFoundedOn(Less, Nat)
  BY NatLessThanWellFounded, Zenon DEF OpToRel
<1>2. CASE T # {}
  <2>1. PICK n \in T : \A m \in T : <<m, n>> \notin Less
    BY <1>1, <1>2, WFMin
  <2>2. n # 0 /\ n - 1 \in Nat /\ n = (n - 1) + 1 /\ <<n - 1, n>> \in Less
    BY <2>1
  <2>3. n - 1 \in S
    BY <2>1, <2>2
  <2> QED BY <2>1, <2>2, <2>3
<1> QED BY <1>2

\* The number of lines that end at or before byte p.
Ended(t, p) == Cardinality({q \in LineFeeds(t) : q <= p})

LEMMA LineFeedsFinite ==
  ASSUME NEW t, WellFormed(t)
  PROVE  /\ \A p \in LineFeeds(t) : p \in Nat /\ 1 <= p /\ p <= Len(t) /\ t[p] = "n"
         /\ \A p \in Nat : 1 <= p /\ p <= Len(t) /\ t[p] = "n" => p \in LineFeeds(t)
         /\ IsFiniteSet(LineFeeds(t)) /\ Cardinality(LineFeeds(t)) \in Nat /\ Len(t) \in Nat
         /\ (Cardinality(LineFeeds(t)) = 0) <=> (LineFeeds(t) = {})
<1>1. /\ LineFeeds(t) \subseteq 1..Len(t) /\ Len(t) \in Nat
      /\ \A p \in LineFeeds(t) : p \in Nat /\ 1 <= p /\ p <= Len(t) /\ t[p] = "n"
      /\ \A p \in Nat : 1 <= p /\ p <= Len(t) /\ t[p] = "n" => p \in LineFeeds(t)
  BY DEF WellFormed, LineFeeds
<1>2. IsFiniteSet(LineFeeds(t))
  <2>1. IsFiniteSet(1..Len(t))
    BY <1>1, FS_Interval
  <2> QED BY <1>1, <2>1, FS_Subset
<1>3. Cardinality(LineFeeds(t)) \in Nat
  BY <1>2, FS_CardinalityType
<1>4. (Cardinality(LineFeeds(t)) = 0) <=> (LineFeeds(t) = {})
  BY <1>2, FS_EmptySet
<1> QED BY <1>1, <1>2, <1>3, <1>4

LEMMA EndedCounts ==
  ASSUME NEW t, WellFormed(t)
  PROVE  /\ Ended(t, 0) = 0
         /\ Ended(t, Len(t)) = Cardinality(LineFeeds(t))
         /\ \A p \in Nat : /\ Ended(t, p) \in Nat
                           /\ Ended(t, p + 1) = Ended(t, p) + (IF p + 1 \in LineFeeds(t) THEN 1 ELSE 0)
<1> DEFINE F == LineFeeds(t)
<1>1. /\ IsFiniteSet(F) /\ Len(t) \in Nat
      /\ \A p \in F : p \in Nat /\ 1 <= p /\ p <= Len(t)
  BY LineFeedsFinite
<1> HIDE DEF F
<1>2. {q \in F : q <= 0} = {} /\ {q \in F : q <= Len(t)} = F
  BY <1>1
<1>3. ASSUME NEW p \in Nat
      PROVE  /\ Ended(t, p) \in Nat
             /\ Ended(t, p + 1) = Ended(t, p) + (IF p + 1 \in F THEN 1 ELSE 0)
  <2> DEFINE upto == {q \in F : q <= p}
             next == {q \in F : q <= p + 1}
  <2>1. IsFiniteSet(upto) /\ Cardinality(upto) \in Nat
    BY <1>1, FS_Subset, FS_CardinalityType
  <2>2. next = IF p + 1 \in F THEN upto \cup {p + 1} ELSE upto
    BY <1>1
  <2>3. p + 1 \notin upto
    OBVIOUS
  <2>4. Ended(t, p) = Cardinality(upto) /\ Ended(t, p + 1) = Cardinality(next)
    BY DEF Ended, F
  <2> HIDE DEF upto, next
  <2>5. Cardinality(upto \cup {p + 1}) = Cardinality(upto) + 1
    BY <2>1, <2>3, FS_AddElement
  <2> QED BY <2>1, <2>2, <2>4, <2>5
<1> QED BY <1>2, <1>3, FS_EmptySet DEF Ended, F

\* It never falls, and grows at a line feed.
LEMMA EndedGrows ==
  ASSUME NEW t, WellFormed(t), NEW p \in Nat, NEW q \in Nat
  PROVE  /\ p <= q => Ended(t, p) <= Ended(t, q)
         /\ p < q /\ q \in LineFeeds(t) => Ended(t, p) < Ended(t, q)
<1> DEFINE Good == {n \in Nat : Ended(t, p) <= Ended(t, p + n)}
<1>1. \A n \in Nat : /\ Ended(t, n) \in Nat
                     /\ Ended(t, n + 1) = Ended(t, n) + (IF n + 1 \in LineFeeds(t) THEN 1 ELSE 0)
  BY EndedCounts
<1>2. 0 \in Good
  BY <1>1
<1>3. ASSUME NEW n \in Nat, n \in Good PROVE n + 1 \in Good
  <2>1. p + n \in Nat /\ p + (n + 1) = (p + n) + 1
    OBVIOUS
  <2>2. Ended(t, p + n) <= Ended(t, (p + n) + 1)
    BY <1>1, <2>1
  <2>3. Ended(t, p) \in Nat /\ Ended(t, p + n) \in Nat /\ Ended(t, (p + n) + 1) \in Nat
    BY <1>1, <2>1
  <2> QED BY <1>3, <2>1, <2>2, <2>3
<1>4. Nat \subseteq Good
  <2> HIDE DEF Good
  <2> QED BY <1>2, <1>3, Induction
<1>5. \A n \in Nat : Ended(t, p) <= Ended(t, p + n)
  BY <1>4
<1>6. ASSUME p <= q PROVE Ended(t, p) <= Ended(t, q)
  <2>1. q - p \in Nat /\ p + (q - p) = q
    BY <1>6
  <2> QED BY <1>5, <2>1
<1>7. ASSUME p < q, q \in LineFeeds(t) PROVE Ended(t, p) < Ended(t, q)
  <2>1. q - 1 \in Nat /\ (q - 1) + 1 = q /\ p + ((q - 1) - p) = q - 1 /\ (q - 1) - p \in Nat
    BY <1>7
  <2>2. Ended(t, p) <= Ended(t, q - 1)
    BY <1>5, <2>1
  <2>3. Ended(t, q) = Ended(t, q - 1) + 1
    BY <1>1, <1>7, <2>1
  <2> QED BY <1>1, <2>1, <2>2, <2>3
<1> QED BY <1>6, <1>7

\* Every line but the first starts behind the line feed that ends the one before.
LEMMA StartsAtLineFeed ==
  ASSUME NEW t, WellFormed(t), NEW i \in 1..Cardinality(LineFeeds(t))
  PROVE  LineStart(t, i) \in LineFeeds(t) /\ Ended(t, LineStart(t, i)) = i
<1> DEFINE Good == {n \in Nat : \A k \in 1..Ended(t, n) : \E p \in LineFeeds(t) : Ended(t, p) = k}
<1>1. /\ Ended(t, 0) = 0 /\ Ended(t, Len(t)) = Cardinality(LineFeeds(t))
      /\ \A n \in Nat : /\ Ended(t, n) \in Nat
                        /\ Ended(t, n + 1) = Ended(t, n) + (IF n + 1 \in LineFeeds(t) THEN 1 ELSE 0)
  BY EndedCounts
<1>2. 0 \in Good
  BY <1>1
<1>3. ASSUME NEW n \in Nat, n \in Good PROVE n + 1 \in Good
  <2> SUFFICES ASSUME NEW k \in 1..Ended(t, n + 1) PROVE \E p \in LineFeeds(t) : Ended(t, p) = k
    OBVIOUS
  <2>1. CASE k \in 1..Ended(t, n)
    BY <1>3, <2>1
  <2>2. CASE k \notin 1..Ended(t, n)
    <3>1. n + 1 \in LineFeeds(t) /\ k = Ended(t, n + 1)
      <4>1. /\ Ended(t, n) \in Nat
            /\ Ended(t, n + 1) = Ended(t, n) + (IF n + 1 \in LineFeeds(t) THEN 1 ELSE 0)
        BY <1>1
      <4> HIDE DEF Good
      <4> QED BY <2>2, <4>1
    <3> QED BY <3>1
  <2> QED BY <2>1, <2>2
<1>4. Nat \subseteq Good
  <2> HIDE DEF Good
  <2> QED BY <1>2, <1>3, Induction
<1>5. Len(t) \in Nat /\ i # 0
  BY LineFeedsFinite
<1>6. \E p \in LineFeeds(t) : Ended(t, p) = i
  BY <1>1, <1>4, <1>5
<1>7. LineStart(t, i) = CHOOSE p \in LineFeeds(t) : Ended(t, p) = i
  BY <1>5 DEF LineStart, Ended
<1> QED BY <1>6, <1>7

\* A line is not empty and starts with a character; the lines follow one another
\* and the last one ends the text.
LEMMA Lines ==
  ASSUME NEW t, WellFormed(t), NEW i \in Nat, i < TotalLines(t)
  PROVE  /\ LineStart(t, i) \in Nat /\ LineEnd(t, i) \in Nat
         /\ LineStart(t, i) < LineEnd(t, i) /\ LineEnd(t, i) <= Len(t)
         /\ Boundary(t, LineStart(t, i))
         /\ i + 1 < TotalLines(t) => LineEnd(t, i) = LineStart(t, i + 1)
         /\ i + 1 >= TotalLines(t) => LineEnd(t, i) = Len(t) /\ i + 1 = TotalLines(t)
<1> DEFINE F == LineFeeds(t)
           N == Cardinality(F)
           open == t # <<>> /\ t[Len(t)] # "n"
<1>1. /\ N \in Nat /\ Len(t) \in Nat /\ ((N = 0) <=> (F = {}))
      /\ \A p \in F : p \in Nat /\ 1 <= p /\ p <= Len(t) /\ t[p] = "n"
      /\ \A p \in Nat : 1 <= p /\ p <= Len(t) /\ t[p] = "n" => p \in F
  BY LineFeedsFinite
<1>2. TotalLines(t) = N + (IF open THEN 1 ELSE 0) /\ i <= N
  BY <1>1 DEF TotalLines
<1>3. \A k \in 1..Len(t) : t[k] = "C" => k > 1 /\ t[k - 1] # "n"
  <2>1. t \in Seq(Bytes) /\ \A k \in DOMAIN t : t[k] = "C" => k > 1 /\ t[k - 1] \in {"L", "C"}
    BY DEF WellFormed
  <2>2. DOMAIN t = 1..Len(t)
    BY <2>1
  <2>3. "L" # "n" /\ "C" # "n"
    OBVIOUS
  <2> QED BY <2>1, <2>2, <2>3
<1>4. (t # <<>>) <=> (Len(t) > 0)
  <2>1. t \in Seq(Bytes)
    BY DEF WellFormed
  <2> QED BY <2>1, EmptySeq
<1>5. \A k \in 1..N : LineStart(t, k) \in F /\ Ended(t, LineStart(t, k)) = k
  BY StartsAtLineFeed
<1>6. LineStart(t, 0) = 0
  BY DEF LineStart
<1>7. LineEnd(t, i) = IF i + 1 \in 1..N THEN LineStart(t, i + 1) ELSE Len(t)
  BY DEF LineEnd
<1>8. \A p \in Nat, q \in F : p < q => Ended(t, p) < Ended(t, q)
  BY <1>1, EndedGrows
<1>9. Ended(t, Len(t)) = N
  BY EndedCounts
<1> HIDE DEF F, N, open
<1>10. LineStart(t, i) \in Nat /\ (i > 0 => LineStart(t, i) \in F)
  BY <1>1, <1>2, <1>5, <1>6
<1>11. CASE i < N
  <2>1. LineEnd(t, i) = LineStart(t, i + 1) /\ LineEnd(t, i) \in F /\ Ended(t, LineEnd(t, i)) = i + 1
    BY <1>1, <1>5, <1>7, <1>11
  <2>2. LineStart(t, i) < LineEnd(t, i)
    <3>1. CASE i = 0
      BY <1>1, <1>6, <2>1, <3>1
    <3>2. CASE i > 0
      <4>1. Ended(t, LineStart(t, i)) = i
        BY <1>1, <1>2, <1>5, <3>2
      <4>2. LineEnd(t, i) # LineStart(t, i)
        BY <2>1, <4>1
      <4>3. ~ LineEnd(t, i) < LineStart(t, i)
        <5> SUFFICES ASSUME LineEnd(t, i) < LineStart(t, i) PROVE FALSE
          OBVIOUS
        <5>1. LineEnd(t, i) \in Nat
          BY <1>1, <2>1
        <5>2. i + 1 < i
          BY <1>8, <1>10, <2>1, <3>2, <4>1, <5>1
        <5> QED BY <5>2
      <4> QED BY <1>1, <1>10, <2>1, <4>2, <4>3
    <3> QED BY <3>1, <3>2
  <2>3. ASSUME i + 1 >= TotalLines(t) PROVE LineEnd(t, i) = Len(t) /\ i + 1 = TotalLines(t)
    <3>1. i + 1 = N /\ ~ open /\ i + 1 = TotalLines(t)
      BY <1>1, <1>2, <1>11, <2>3
    <3>2. Len(t) > 0 /\ t[Len(t)] = "n"
      BY <1>1, <1>4, <2>1, <3>1 DEF open
    <3>3. Len(t) \in F
      BY <1>1, <1>3, <3>2
    <3>4. ~ LineEnd(t, i) < Len(t)
      <4> SUFFICES ASSUME LineEnd(t, i) < Len(t) PROVE FALSE
        OBVIOUS
      <4>1. LineEnd(t, i) \in Nat
        BY <1>1, <2>1
      <4>2. i + 1 < N
        BY <1>8, <1>9, <2>1, <3>3, <4>1
      <4> QED BY <1>1, <3>1, <4>2
    <3> QED BY <1>1, <2>1, <3>1, <3>4
  <2>4. LineEnd(t, i) \in Nat /\ LineEnd(t, i) <= Len(t)
    BY <1>1, <2>1
  <2>5. Boundary(t, LineStart(t, i))
    <3>1. LineStart(t, i) + 1 \in 1..Len(t)
      BY <1>1, <1>10, <2>2, <2>4
    <3>2. CASE i = 0
      BY <1>3, <1>6, <3>1, <3>2 DEF Boundary
    <3>3. CASE i > 0
      <4>1. t[LineStart(t, i)] = "n" /\ (LineStart(t, i) + 1) - 1 = LineStart(t, i)
        BY <1>1, <1>10, <3>3
      <4> QED BY <1>3, <3>1, <4>1 DEF Boundary
    <3> QED BY <3>2, <3>3
  <2> QED BY <1>10, <2>1, <2>2, <2>3, <2>4, <2>5
<1>12. CASE i = N
  <2>1. open /\ TotalLines(t) = N + 1 /\ LineEnd(t, i) = Len(t)
    BY <1>1, <1>2, <1>7, <1>12
  <2>2. Len(t) > 0 /\ t[Len(t)] # "n" /\ Len(t) \notin F
    BY <1>1, <1>3, <1>4, <2>1 DEF open
  <2>3. LineStart(t, i) < Len(t)
    <3>1. CASE i = 0
      BY <1>6, <2>2, <3>1
    <3>2. CASE i > 0
      BY <1>1, <1>10, <2>2, <3>2
    <3> QED BY <3>1, <3>2
  <2>4. Boundary(t, LineStart(t, i))
    <3>1. LineStart(t, i) + 1 \in 1..Len(t)
      BY <1>1, <1>10, <2>3
    <3>2. CASE i = 0
      BY <1>3, <1>6, <3>1, <3>2 DEF Boundary
    <3>3. CASE i > 0
      <4>1. t[LineStart(t, i)] = "n" /\ (LineStart(t, i) + 1) - 1 = LineStart(t, i)
        BY <1>1, <1>10, <3>3
      <4> QED BY <1>3, <3>1, <4>1 DEF Boundary
    <3> QED BY <3>2, <3>3
  <2> QED BY <1>1, <1>10, <1>12, <2>1, <2>3, <2>4
<1> QED BY <1>1, <1>2, <1>11, <1>12

LEMMA NoLines ==
  ASSUME NEW t, WellFormed(t), TotalLines(t) = 0
  PROVE  t = <<>>
<1>1. /\ Cardinality(LineFeeds(t)) \in Nat /\ ((Cardinality(LineFeeds(t)) = 0) <=> (LineFeeds(t) = {}))
      /\ \A p \in Nat : 1 <= p /\ p <= Len(t) /\ t[p] = "n" => p \in LineFeeds(t)
  BY LineFeedsFinite
<1>2. t \in Seq(Bytes)
  BY DEF WellFormed
<1>3. Cardinality(LineFeeds(t)) = 0 /\ ~ (t # <<>> /\ t[Len(t)] # "n")
  BY <1>1 DEF TotalLines
<1>4. ASSUME t # <<>> PROVE FALSE
  <2>1. Len(t) \in Nat /\ 1 <= Len(t)
    BY <1>2, <1>4
  <2> QED BY <1>1, <1>3, <1>4, <2>1
<1> QED BY <1>4

\* What is taken of a line ends at the end of a character, or is nothing.
LEMMA FitsEndsCharacter ==
  ASSUME NEW t, NEW position \in Nat, NEW end \in Nat, NEW room \in Nat, position <= end
  PROVE  LET count == Fits(t, position, end, room)
         IN /\ count \in Nat /\ count <= room /\ position + count <= end
            /\ count = 0 \/ position + count = end \/ Boundary(t, position + count)
<1> DEFINE most == Smaller(end - position, room)
           Ends(n) == n = 0 \/ position + n = end \/ Boundary(t, position + n)
           Good == {m \in Nat : \E n \in 0..m : Ends(n) /\ \A k \in (n + 1)..m : position + k # end /\ ~ Boundary(t, position + k)}
<1>1. most \in Nat /\ most <= room /\ position + most <= end
  BY DEF Smaller
<1> HIDE DEF most
<1>2. 0 \in Good
  OBVIOUS
<1>3. ASSUME NEW m \in Nat, m \in Good PROVE m + 1 \in Good
  <2>1. CASE Ends(m + 1)
    <3>1. m + 1 \in 0..(m + 1) /\ \A k \in ((m + 1) + 1)..(m + 1) : FALSE
      OBVIOUS
    <3> QED BY <2>1, <3>1
  <2>2. CASE ~ Ends(m + 1)
    <3>1. PICK n \in 0..m : Ends(n) /\ \A k \in (n + 1)..m : position + k # end /\ ~ Boundary(t, position + k)
      BY <1>3
    <3>2. n \in 0..(m + 1) /\ \A k \in (n + 1)..(m + 1) : k \in (n + 1)..m \/ k = m + 1
      OBVIOUS
    <3>3. \A k \in (n + 1)..(m + 1) : position + k # end /\ ~ Boundary(t, position + k)
      BY <2>2, <3>1, <3>2
    <3> HIDE DEF Ends
    <3> QED BY <3>1, <3>2, <3>3
  <2> QED BY <2>1, <2>2
<1>4. Nat \subseteq Good
  <2> HIDE DEF Good
  <2> QED BY <1>2, <1>3, Induction
<1>5. \E n \in 0..most : Ends(n) /\ \A k \in (n + 1)..most : position + k # end /\ ~ Boundary(t, position + k)
  BY <1>1, <1>4
<1>6. Fits(t, position, end, room) =
        CHOOSE n \in 0..most : Ends(n) /\ \A k \in (n + 1)..most : position + k # end /\ ~ Boundary(t, position + k)
  BY DEF Fits, most
<1>7. Fits(t, position, end, room) \in 0..most /\ Ends(Fits(t, position, end, room))
  <2> HIDE DEF Ends
  <2> QED BY <1>5, <1>6
<1> QED BY <1>1, <1>7

----------------------------------------------------------------------------
PageStates == {"new", "line", "next", "complete", "changed", "too_small"}
\* Where a reading stands: before a byte of a line, or behind the last line.
Reached(t, index, offset, got) ==
  \/ index = TotalLines(t) /\ offset = 0 /\ got = t
  \/ /\ index < TotalLines(t) /\ LineStart(t, index) + offset < LineEnd(t, index)
     /\ Boundary(t, LineStart(t, index) + offset)
     /\ got = SubSeq(t, 1, LineStart(t, index) + offset)

PagesInv ==
  /\ file \in Texts
  /\ pages \in [state : PageStates, text : Texts \cup {<<>>}, got : Seq(Bytes), index : Nat, offset : Nat,
                room : Nat, lines : Nat, selected : Nat, rewritten : Nat]
  /\ pages.state = "new" => pages = NoPages
  /\ pages.state # "new" => /\ pages.text \in Texts /\ pages.selected <= pages.room
                            /\ Reached(pages.text, pages.index, pages.offset, pages.got)
  /\ pages.state = "line" => pages.lines > 0
  /\ pages.state \in {"line", "next"} => pages.index < TotalLines(pages.text)
  /\ pages.state = "complete" => pages.index >= TotalLines(pages.text)

LEMMA TotalIsNat == ASSUME NEW t, WellFormed(t) PROVE TotalLines(t) \in Nat
<1>1. Cardinality(LineFeeds(t)) \in Nat
  BY LineFeedsFinite
<1> QED BY <1>1 DEF TotalLines

\* Joining what was taken to what there was.
LEMMA Joined ==
  ASSUME NEW t, WellFormed(t), NEW p \in Nat, NEW q \in Nat, p <= q, q <= Len(t)
  PROVE  SubSeq(t, 1, p) \o SubSeq(t, p + 1, q) = SubSeq(t, 1, q)
<1>1. t \in Seq(Bytes)
  BY DEF WellFormed
<1> QED BY <1>1, ConcatAdjacentSubSeq

LEMMA FirstPage ==
  ASSUME NEW t, WellFormed(t)
  PROVE  Reached(t, 0, 0, <<>>)
<1>1. t \in Seq(Bytes) /\ TotalLines(t) \in Nat
  BY TotalIsNat DEF WellFormed
<1>2. CASE TotalLines(t) = 0
  BY <1>2, NoLines DEF Reached
<1>3. CASE 0 < TotalLines(t)
  <2>1. LineStart(t, 0) = 0
    BY DEF LineStart
  <2>2. SubSeq(t, 1, 0) = <<>>
    BY <1>1
  <2>3. LineStart(t, 0) < LineEnd(t, 0) /\ Boundary(t, LineStart(t, 0))
    BY <1>3, Lines
  <2>4. LineStart(t, 0) + 0 = 0
    BY <2>1
  <2> QED BY <1>3, <2>1, <2>2, <2>3, <2>4 DEF Reached
<1> QED BY <1>1, <1>2, <1>3

\* What is taken of a line that is not finished, and of one that is.
LEMMA Advances ==
  ASSUME NEW t, WellFormed(t), NEW index \in Nat, NEW offset \in Nat, NEW got, NEW room \in Nat,
         index < TotalLines(t), Reached(t, index, offset, got)
  PROVE  LET position == LineStart(t, index) + offset
             end == LineEnd(t, index)
             count == Fits(t, position, end, room)
             all == got \o SubSeq(t, position + 1, position + count)
         IN /\ ~ position >= end /\ Boundary(t, position) /\ count \in Nat /\ count <= room
            /\ all \in Seq(Bytes)
            /\ count # 0 /\ position + count < end => Reached(t, index, offset + count, all)
            /\ ~ position + count < end => Reached(t, index + 1, 0, all)
<1> DEFINE position == LineStart(t, index) + offset
           end == LineEnd(t, index)
           count == Fits(t, position, end, room)
           all == got \o SubSeq(t, position + 1, position + count)
<1>1. /\ t \in Seq(Bytes) /\ TotalLines(t) \in Nat
  BY TotalIsNat DEF WellFormed
<1>2. /\ LineStart(t, index) \in Nat /\ end \in Nat /\ end <= Len(t)
      /\ index + 1 < TotalLines(t) => end = LineStart(t, index + 1)
      /\ index + 1 >= TotalLines(t) => end = Len(t) /\ index + 1 = TotalLines(t)
  BY Lines
<1>3. position < end /\ Boundary(t, position) /\ got = SubSeq(t, 1, position)
  BY <1>1 DEF Reached
<1>4. position \in Nat /\ ~ position >= end
  BY <1>2, <1>3
<1> HIDE DEF position, end
<1>5. /\ count \in Nat /\ count <= room /\ position + count <= end
      /\ count = 0 \/ position + count = end \/ Boundary(t, position + count)
  BY <1>2, <1>3, <1>4, FitsEndsCharacter
<1> HIDE DEF count
<1>6. all = SubSeq(t, 1, position + count)
  <2>1. position + count \in Nat /\ position <= position + count /\ position + count <= Len(t) /\ Len(t) \in Nat
    BY <1>1, <1>2, <1>4, <1>5
  <2> QED BY <1>3, <1>4, <2>1, Joined
<1>7. all \in Seq(Bytes)
  <2>1. position + count \in Nat /\ position + count <= Len(t) /\ Len(t) \in Nat
    BY <1>1, <1>2, <1>4, <1>5
  <2> HIDE DEF all
  <2>2. \A n \in Nat : n <= Len(t) => SubSeq(t, 1, n) \in Seq(Bytes)
    BY <1>1
  <2> QED BY <1>6, <2>1, <2>2
<1> HIDE DEF all
<1>8. ASSUME count # 0, position + count < end PROVE Reached(t, index, offset + count, all)
  <2>1. LineStart(t, index) + (offset + count) = position + count
    BY <1>2, <1>5 DEF position
  <2>2. Boundary(t, position + count)
    BY <1>2, <1>4, <1>5, <1>8
  <2> QED BY <1>6, <1>8, <2>1, <2>2 DEF Reached, end
<1>9. ASSUME ~ position + count < end PROVE Reached(t, index + 1, 0, all)
  <2>1. position + count = end
    BY <1>2, <1>4, <1>5, <1>9
  <2>2. CASE index + 1 < TotalLines(t)
    <3>1. /\ LineStart(t, index + 1) \in Nat /\ LineStart(t, index + 1) < LineEnd(t, index + 1)
          /\ Boundary(t, LineStart(t, index + 1))
      BY <2>2, Lines
    <3>2. LineStart(t, index + 1) + 0 = LineStart(t, index + 1) /\ LineStart(t, index + 1) = end
      BY <1>2, <2>2, <3>1
    <3> QED BY <1>6, <2>1, <2>2, <3>1, <3>2 DEF Reached
  <2>3. CASE index + 1 >= TotalLines(t)
    <3>1. all = SubSeq(t, 1, Len(t)) /\ index + 1 = TotalLines(t)
      BY <1>2, <1>6, <2>1, <2>3
    <3>2. SubSeq(t, 1, Len(t)) = t
      BY <1>1, SubSeqFull
    <3> QED BY <3>1, <3>2 DEF Reached
  <2> QED BY <1>1, <2>2, <2>3
<1> QED BY <1>3, <1>4, <1>5, <1>7, <1>8, <1>9 DEF position, end, count, all

LEMMA PagesInvInit == TextInit => PagesInv
<1> SUFFICES ASSUME TextInit PROVE PagesInv
  OBVIOUS
<1> QED BY DEF TextInit, PagesInv, NoPages, PageStates

LEMMA RequestKeeps ==
  ASSUME PagesInv, RequestPage
  PROVE  PagesInv'
<1> USE DEF PagesInv
<1>1. PICK room \in PageBytes, lines \in PageLines :
        pages' = IF pages.state = "next" /\ FileSnapshot # pages.text THEN [pages EXCEPT !.state = "changed"]
                ELSE [pages EXCEPT !.state = IF pages.index < TotalLines(FileSnapshot) THEN "line" ELSE "complete",
                                   !.text = FileSnapshot, !.room = room, !.lines = lines, !.selected = 0]
  BY DEF RequestPage
<1>2. /\ room \in Nat /\ lines \in Nat /\ lines > 0 /\ file \in Texts /\ file' = file /\ WellFormed(file)
      /\ 0 <= room
  BY PagingAssumption DEF RequestPage
<1>3. pages.state \in {"new", "next"}
  BY DEF RequestPage
<1>4. CASE pages.state = "next" /\ FileSnapshot # pages.text
  <2>1. pages' = [pages EXCEPT !.state = "changed"]
    BY <1>1, <1>4
  <2> QED BY <1>2, <1>4, <2>1 DEF PageStates
<1>5. CASE ~ (pages.state = "next" /\ FileSnapshot # pages.text)
  <2> DEFINE state == IF pages.index < TotalLines(file) THEN "line" ELSE "complete"
  <2>1. pages' = [pages EXCEPT !.state = state, !.text = file, !.room = room, !.lines = lines, !.selected = 0]
    BY <1>1, <1>5 DEF FileSnapshot
  <2>2. /\ pages'.state = state /\ pages'.text = file /\ pages'.room = room /\ pages'.lines = lines
        /\ pages'.selected = 0 /\ pages'.got = pages.got /\ pages'.index = pages.index
        /\ pages'.offset = pages.offset
        /\ pages' \in [state : PageStates, text : Texts \cup {<<>>}, got : Seq(Bytes), index : Nat, offset : Nat,
                room : Nat, lines : Nat, selected : Nat, rewritten : Nat]
    BY <1>2, <2>1 DEF PageStates
  <2>3. Reached(file, pages.index, pages.offset, pages.got)
    <3>1. CASE pages.state = "new"
      BY <1>2, <3>1, FirstPage DEF NoPages
    <3>2. CASE pages.state = "next"
      BY <1>5, <3>2 DEF FileSnapshot
    <3> QED BY <1>3, <3>1, <3>2
  <2>4. /\ state \in {"line", "complete"}
        /\ state = "line" => pages.index < TotalLines(file)
        /\ state = "complete" => pages.index >= TotalLines(file)
    <3>1. TotalLines(file) \in Nat /\ pages.index \in Nat
      BY <1>2, TotalIsNat
    <3> QED BY <3>1
  <2> HIDE DEF state
  <2> QED BY <1>2, <2>2, <2>3, <2>4
<1> QED BY <1>4, <1>5

LEMMA TakeKeeps ==
  ASSUME PagesInv, TakeLine
  PROVE  PagesInv'
<1> DEFINE t == pages.text
           position == LineStart(t, pages.index) + pages.offset
           end == LineEnd(t, pages.index)
           room == pages.room - pages.selected
           count == Fits(t, position, end, room)
           all == pages.got \o SubSeq(t, position + 1, position + count)
           taken == [pages EXCEPT !.got = all, !.selected = @ + count]
           after == [taken EXCEPT !.index = @ + 1, !.offset = 0, !.lines = @ - 1]
           Types == [state : PageStates, text : Texts \cup {<<>>}, got : Seq(Bytes), index : Nat, offset : Nat,
                room : Nat, lines : Nat, selected : Nat, rewritten : Nat]
<1>1. /\ pages.state = "line" /\ pages \in Types /\ t \in Texts /\ WellFormed(t) /\ file \in Texts /\ file' = file
      /\ pages.selected <= pages.room /\ pages.lines > 0 /\ pages.index < TotalLines(t)
      /\ Reached(t, pages.index, pages.offset, pages.got)
  BY PagingAssumption DEF PagesInv, TakeLine
<1>2. /\ pages.index \in Nat /\ pages.offset \in Nat /\ pages.selected \in Nat /\ pages.room \in Nat
      /\ pages.lines \in Nat /\ pages.got \in Seq(Bytes)
  BY <1>1
<1>3. room \in Nat
  BY <1>1, <1>2
<1>4. /\ ~ position >= end /\ Boundary(t, position) /\ count \in Nat /\ count <= room
      /\ all \in Seq(Bytes)
      /\ count # 0 /\ position + count < end => Reached(t, pages.index, pages.offset + count, all)
      /\ ~ position + count < end => Reached(t, pages.index + 1, 0, all)
  BY <1>1, <1>2, <1>3, Advances
<1>5. pages' = IF count = 0 THEN IF pages.selected = 0 THEN [pages EXCEPT !.state = "too_small"] ELSE EndPage(pages)
                 ELSE IF position + count < end THEN EndPage([taken EXCEPT !.offset = @ + count])
                 ELSE IF after.lines = 0 \/ after.index >= TotalLines(t) THEN EndPage(after) ELSE after
  BY <1>4 DEF TakeLine
<1> HIDE DEF t, position, end, room, count, all
<1>6. pages.selected + count <= pages.room /\ pages.selected + count \in Nat
  BY <1>1, <1>2, <1>4 DEF room
<1>7. TotalLines(t) \in Nat
  BY <1>1, TotalIsNat
<1>8. CASE count = 0 /\ pages.selected = 0
  BY <1>1, <1>5, <1>8 DEF PagesInv, PageStates, t
<1>9. CASE count = 0 /\ pages.selected # 0
  <2>1. pages' = [pages EXCEPT !.state = "next"]
    BY <1>1, <1>5, <1>9 DEF EndPage, t
  <2> QED BY <1>1, <2>1 DEF PagesInv, PageStates, t
<1>10. CASE count # 0 /\ position + count < end
  <2>1. pages' = [pages EXCEPT !.got = all, !.selected = @ + count, !.offset = @ + count, !.state = "next"]
    BY <1>1, <1>5, <1>10 DEF EndPage, t
  <2>2. pages.offset + count \in Nat
    BY <1>2, <1>4
  <2>3. pages' \in Types
    BY <1>1, <1>4, <1>6, <2>1, <2>2 DEF PageStates
  <2>4. /\ pages'.text = t /\ pages'.got = all /\ pages'.selected = pages.selected + count
        /\ pages'.offset = pages.offset + count /\ pages'.state = "next" /\ pages'.room = pages.room
        /\ pages'.index = pages.index
    BY <1>1, <2>1 DEF t
  <2> QED BY <1>1, <1>4, <1>6, <1>10, <2>3, <2>4 DEF PagesInv
<1>11. CASE count # 0 /\ ~ position + count < end
  <2> DEFINE state == IF pages.index + 1 < TotalLines(t) THEN (IF pages.lines - 1 = 0 THEN "next" ELSE "line")
                      ELSE "complete"
  <2>1. /\ after \in Types /\ after.index = pages.index + 1 /\ after.lines = pages.lines - 1 /\ after.text = t
        /\ after.state = "line"
    <3>1. pages.index + 1 \in Nat /\ pages.lines - 1 \in Nat
      BY <1>1, <1>2
    <3>2. /\ taken \in Types /\ taken.index = pages.index /\ taken.lines = pages.lines /\ taken.text = t
          /\ taken.state = "line"
      BY <1>1, <1>4, <1>6 DEF t
    <3> HIDE DEF taken
    <3>3. after = [taken EXCEPT !.index = pages.index + 1, !.offset = 0, !.lines = pages.lines - 1]
      BY <3>2
    <3> QED BY <3>1, <3>2, <3>3
  <2>2. pages' = [pages EXCEPT !.got = all, !.selected = @ + count, !.index = @ + 1, !.offset = 0,
                               !.lines = @ - 1, !.state = state]
    <3>1. pages' = [after EXCEPT !.state = state]
      <4>1. CASE pages.index + 1 < TotalLines(t) /\ pages.lines - 1 # 0
        <5>1. pages' = after
          BY <1>2, <1>5, <1>7, <1>11, <2>1, <4>1
        <5> HIDE DEF after
        <5> QED BY <2>1, <4>1, <5>1
      <4>2. CASE pages.index + 1 < TotalLines(t) /\ pages.lines - 1 = 0
        <5>1. pages' = EndPage(after)
          BY <1>2, <1>5, <1>7, <1>11, <2>1, <4>2
        <5> HIDE DEF after
        <5> QED BY <2>1, <4>2, <5>1 DEF EndPage
      <4>3. CASE ~ pages.index + 1 < TotalLines(t)
        <5>1. after.index >= TotalLines(t)
          BY <1>2, <1>7, <2>1, <4>3
        <5>2. pages' = EndPage(after)
          BY <1>5, <1>11, <5>1
        <5> HIDE DEF after
        <5> QED BY <2>1, <4>3, <5>2 DEF EndPage
      <4> QED BY <4>1, <4>2, <4>3
    <3> QED BY <1>1, <3>1
  <2> HIDE DEF after, taken
  <2>3. /\ state \in {"next", "line", "complete"}
        /\ state = "line" => pages.lines - 1 > 0
        /\ state \in {"next", "line"} => pages.index + 1 < TotalLines(t)
        /\ state = "complete" => pages.index + 1 >= TotalLines(t)
    BY <1>1, <1>2, <1>7
  <2> HIDE DEF state
  <2>4. /\ pages'.text = t /\ pages'.got = all /\ pages'.selected = pages.selected + count
        /\ pages'.offset = 0 /\ pages'.state = state /\ pages'.room = pages.room
        /\ pages'.index = pages.index + 1 /\ pages'.lines = pages.lines - 1
    BY <1>1, <2>2 DEF t
  <2>5. pages' \in Types
    <3>1. pages.index + 1 \in Nat /\ pages.lines - 1 \in Nat /\ state \in PageStates
      BY <1>1, <1>2, <2>3 DEF PageStates
    <3> QED BY <1>1, <1>4, <1>6, <2>2, <3>1
  <2> QED BY <1>1, <1>4, <1>6, <1>11, <2>3, <2>4, <2>5 DEF PagesInv
<1> QED BY <1>8, <1>9, <1>10, <1>11

LEMMA PagesInvNext == PagesInv /\ [TextNext]_textVars => PagesInv'
<1> SUFFICES ASSUME PagesInv, [TextNext]_textVars PROVE PagesInv'
  OBVIOUS
<1>1. CASE RequestPage
  BY <1>1, RequestKeeps
<1>2. CASE TakeLine
  BY <1>2, TakeKeeps
<1>3. ASSUME NEW t \in Texts, Rewrite(t) PROVE PagesInv'
  <2>1. /\ file' = t /\ pages' = [pages EXCEPT !.rewritten = @ + 1] /\ pages.state = "next"
        /\ pages.rewritten \in Nat
    BY <1>3 DEF Rewrite, PagesInv
  <2> QED BY <2>1 DEF PagesInv
<1>4. CASE UNCHANGED <<file, pages>>
  BY <1>4 DEF PagesInv
<1> QED BY <1>1, <1>2, <1>3, <1>4 DEF TextNext, Edit, Patch, textVars

LEMMA SoundPages == PagesInv => PagesAreTheFile
<1> SUFFICES ASSUME PagesInv PROVE PagesAreTheFile
  OBVIOUS
<1> USE DEF PagesInv
<1> DEFINE t == pages.text
<1>1. CASE pages.state = "new"
  BY <1>1 DEF NoPages, PagesAreTheFile, IsPrefix
<1>2. CASE pages.state # "new"
  <2>1. t \in Texts /\ WellFormed(t) /\ pages.index \in Nat /\ pages.offset \in Nat
    BY <1>2, PagingAssumption
  <2>2. t \in Seq(Bytes) /\ TotalLines(t) \in Nat
    BY <2>1, TotalIsNat DEF WellFormed
  <2>3. CASE pages.index = TotalLines(t) /\ pages.got = t
    BY <1>2, <2>2, <2>3 DEF PagesAreTheFile, IsPrefix, Boundary, PageStates
  <2>4. CASE pages.index < TotalLines(t)
    <3> DEFINE p == LineStart(t, pages.index) + pages.offset
    <3>1. /\ LineStart(t, pages.index) \in Nat /\ LineEnd(t, pages.index) \in Nat
          /\ LineEnd(t, pages.index) <= Len(t)
      BY <2>1, <2>4, Lines
    <3>2. p < LineEnd(t, pages.index) /\ Boundary(t, p) /\ pages.got = SubSeq(t, 1, p)
      BY <1>2, <2>1, <2>2, <2>4 DEF Reached
    <3>3. p \in Nat /\ p <= Len(t) /\ Len(t) \in Nat
      BY <2>1, <2>2, <3>1, <3>2
    <3> HIDE DEF p
    <3>4. Len(SubSeq(t, 1, p)) = p
      BY <2>2, <3>3
    <3>5. SubSeq(SubSeq(t, 1, p), 1, p) = SubSeq(t, 1, p)
      <4>1. SubSeq(t, 1, p) \in Seq(Bytes)
        BY <2>2, <3>3
      <4> QED BY <3>4, <4>1, SubSeqFull
    <3>6. pages.state # "complete"
      BY <2>1, <2>2, <2>4
    <3> QED BY <3>2, <3>3, <3>4, <3>5, <3>6 DEF PagesAreTheFile, IsPrefix, PageStates
  <2> QED BY <1>2, <2>3, <2>4 DEF Reached
<1> QED BY <1>1, <1>2

\* However a caller pages through a file (read_file), whatever its size, its
\* characters and the limits of each page, and however it is rewritten meanwhile, what
\* has been read is a beginning of one revision, and in the end all of it.
THEOREM PagesJoin == TextSpec => []PagesAreTheFile
  BY PagesInvInit, PagesInvNext, SoundPages, PTL DEF TextSpec

----------------------------------------------------------------------------
(* Where the hunks of a patch are placed.                                  *)

Edits(X) == [start : Nat, end : Nat, new : Seq(X)]
Placements == Edits(PatchLines)
Hunks == [old : Seq(PatchLines), new : Seq(PatchLines), anchor : Seq(PatchLines),
          eof : BOOLEAN, context : BOOLEAN]
\* One after the other, up to a line.
InOrder(places, bound) ==
  /\ \A i \in 1..Len(places) : places[i].start <= places[i].end /\ places[i].end <= bound
  /\ \A i \in 1..(Len(places) - 1) : places[i].end <= places[i + 1].start
Accs == [state : {"ok", "ambiguous", "not_found"}, cursor : Nat, placements : Seq(Placements)]
\* What has been placed so far lies before the cursor.
Fit(t, acc) ==
  /\ acc \in Accs
  /\ acc.cursor <= Len(t) /\ InOrder(acc.placements, acc.cursor)

LEMMA LeastIs ==
  ASSUME NEW S \in SUBSET Nat, S # {}
  PROVE  \E m \in S : \A n \in S : m <= n
<1> DEFINE Less == {pair \in Nat \X Nat : pair[1] < pair[2]}
<1>1. IsWellFoundedOn(Less, Nat)
  BY NatLessThanWellFounded, Zenon DEF OpToRel
<1>2. PICK m \in S : \A n \in S : <<n, m>> \notin Less
  <2> HIDE DEF Less
  <2> QED BY <1>1, WFMin
<1>3. ASSUME NEW n \in S PROVE m <= n
  <2>1. m \in Nat /\ n \in Nat /\ <<n, m>> \notin Less
    BY <1>2
  <2>2. n < m => <<n, m>> \in Less
    BY <2>1
  <2> QED BY <2>1, <2>2
<1> QED BY <1>3

LEMMA MoveFits ==
  ASSUME NEW t \in Seq(PatchLines), NEW acc, Fit(t, acc), NEW cursor \in Nat,
         acc.cursor <= cursor, cursor <= Len(t)
  PROVE  Fit(t, [acc EXCEPT !.cursor = cursor])
<1> DEFINE moved == [acc EXCEPT !.cursor = cursor]
<1>1. /\ moved \in [state : {"ok", "ambiguous", "not_found"}, cursor : Nat, placements : Seq(Placements)]
      /\ moved.cursor = cursor /\ moved.placements = acc.placements
  BY DEF Fit, Accs
<1> DEFINE places == acc.placements
<1>2. /\ places \in Seq(Placements) /\ Len(places) \in Nat /\ acc.cursor \in Nat
      /\ InOrder(places, acc.cursor)
  BY DEF Fit, Accs
<1> HIDE DEF moved, places
<1>3. \A i \in 1..Len(places) : places[i].end \in Nat
  <2>1. \A i \in 1..Len(places) : places[i] \in Placements
    BY <1>2
  <2> QED BY <2>1 DEF Placements, Edits
<1>4. InOrder(places, cursor)
  BY <1>2, <1>3 DEF InOrder
<1> QED BY <1>1, <1>4 DEF Fit, Accs, moved, places

LEMMA FailedFits ==
  ASSUME NEW t, NEW acc, Fit(t, acc), NEW why \in {"ambiguous", "not_found"}
  PROVE  Fit(t, Failed(acc, why))
<1>1. /\ Failed(acc, why) \in [state : {"ok", "ambiguous", "not_found"}, cursor : Nat,
                              placements : Seq(Placements)]
      /\ Failed(acc, why).cursor = acc.cursor /\ Failed(acc, why).placements = acc.placements
  BY DEF Fit, Accs, Failed
<1> QED BY <1>1 DEF Fit, Accs

\* A placement at or behind the cursor, which moves behind it.
LEMMA PlacedFits ==
  ASSUME NEW t \in Seq(PatchLines), NEW acc, Fit(t, acc), NEW e \in Placements, NEW cursor \in Nat,
         acc.cursor <= e.start, e.start <= e.end, e.end <= cursor, cursor <= Len(t)
  PROVE  Fit(t, Placed(acc, e, cursor))
<1> DEFINE places == acc.placements
           more == Append(places, e)
<1>1. /\ places \in Seq(Placements) /\ Len(places) \in Nat /\ acc.cursor \in Nat
      /\ InOrder(places, acc.cursor)
  BY DEF Fit, Accs
<1>2. e.start \in Nat /\ e.end \in Nat
  BY DEF Placements, Edits
<1>3. acc.cursor <= cursor
  BY <1>1, <1>2
<1> DEFINE moved == [acc EXCEPT !.cursor = cursor]
           added == [moved EXCEPT !.placements = more]
<1>4. Fit(t, moved)
  BY <1>3, MoveFits
<1>5. more \in Seq(Placements) /\ Len(more) = Len(places) + 1 /\ more[Len(places) + 1] = e
      /\ \A i \in 1..Len(places) : more[i] = places[i]
  BY <1>1
<1> HIDE DEF more
<1>6. moved.placements = places /\ moved.cursor = cursor
  BY <1>4 DEF Fit, Accs
<1>7. InOrder(places, cursor)
  BY <1>4, <1>6 DEF Fit, Accs
<1> HIDE DEF places
<1>8. \A i \in 1..Len(places) : places[i].end \in Nat /\ places[i].end <= acc.cursor
  <2>1. \A i \in 1..Len(places) : places[i] \in Placements
    BY <1>1
  <2> QED BY <1>1, <2>1 DEF InOrder, Placements, Edits
<1>9. InOrder(more, cursor)
  <2>1. ASSUME NEW i \in 1..Len(more) PROVE more[i].start <= more[i].end /\ more[i].end <= cursor
    <3>1. CASE i = Len(places) + 1
      BY <1>5, <3>1
    <3>2. CASE i \in 1..Len(places)
      BY <1>5, <1>7, <3>2 DEF InOrder
    <3>3. i = Len(places) + 1 \/ i \in 1..Len(places)
      BY <1>1, <1>5
    <3> QED BY <3>1, <3>2, <3>3
  <2>2. ASSUME NEW i \in 1..(Len(more) - 1) PROVE more[i].end <= more[i + 1].start
    <3>1. i \in 1..Len(places) /\ more[i] = places[i]
      BY <1>1, <1>5
    <3>2. CASE i = Len(places)
      BY <1>1, <1>2, <1>5, <1>8, <3>1, <3>2
    <3>3. CASE i # Len(places)
      <4>1. i \in 1..(Len(places) - 1) /\ i + 1 \in 1..Len(places)
        BY <1>1, <3>1, <3>3
      <4> QED BY <1>5, <1>7, <3>1, <4>1 DEF InOrder
    <3> QED BY <3>2, <3>3
  <2> QED BY <2>1, <2>2 DEF InOrder
<1>10. /\ added \in [state : {"ok", "ambiguous", "not_found"}, cursor : Nat, placements : Seq(Placements)]
       /\ added.cursor = cursor /\ added.placements = more
  BY <1>4, <1>5 DEF Fit, Accs
<1>11. Fit(t, added)
  BY <1>9, <1>10 DEF Fit, Accs
<1>12. Placed(acc, e, cursor) = added \/ Placed(acc, e, cursor) = moved
  <2>1. acc.placements = places
    BY DEF places
  <2>2. DOMAIN acc = {"state", "cursor", "placements"}
    BY DEF Fit, Accs
  <2> QED BY <2>1, <2>2 DEF Placed, more
<1> QED BY <1>4, <1>11, <1>12

\* What is shared at either end is taken off within the range.
LEMMA TrimIs ==
  ASSUME NEW t, NEW start \in Nat, NEW end \in Nat, start <= end, NEW new \in Seq(PatchLines)
  PROVE  /\ Trim(t, start, end, new) \in Placements
         /\ start <= Trim(t, start, end, new).start /\ Trim(t, start, end, new).end <= end
         /\ Trim(t, start, end, new).start <= Trim(t, start, end, new).end
<1> DEFINE most == Smaller(end - start, Len(new))
           P(n) == /\ \A j \in 1..n : t[start + j] = new[j]
                   /\ n < Smaller(end - start, Len(new)) => t[start + n + 1] # new[n + 1]
           prefix == CHOOSE n \in 0..most : P(n)
           rest == Slice(new, prefix, Len(new))
           width == end - start - prefix
           least == Smaller(width, Len(rest))
           Q(n) == /\ \A j \in 0..(n - 1) : t[end - j] = rest[Len(rest) - j]
                   /\ n < Smaller(width, Len(rest)) => t[end - n] # rest[Len(rest) - n]
           suffix == CHOOSE n \in 0..least : Q(n)
<1>1. Len(new) \in Nat /\ end - start \in Nat /\ most \in Nat /\ most <= end - start
      /\ most <= Len(new)
  BY DEF Smaller
<1>2. prefix \in 0..most
  <2> DEFINE S == {n \in 0..most : n = most \/ t[start + n + 1] # new[n + 1]}
  <2>1. S \in SUBSET Nat /\ most \in S
    BY <1>1
  <2>2. PICK n \in S : \A m \in S : n <= m
    <3> HIDE DEF S
    <3> QED BY <2>1, LeastIs
  <2>3. ASSUME NEW j \in 1..n PROVE t[start + j] = new[j]
    <3>1. j - 1 \in 0..most /\ ~ n <= j - 1
      BY <1>1, <2>1
    <3>2. j - 1 \notin S
      BY <2>2, <3>1
    <3>3. start + (j - 1) + 1 = start + j /\ (j - 1) + 1 = j
      BY <3>1
    <3> QED BY <3>1, <3>2, <3>3
  <2>4. n < most => t[start + n + 1] # new[n + 1]
    BY <1>1
  <2> HIDE DEF S
  <2>5. n \in 0..most /\ P(n)
    <3>1. n \in 0..most
      BY <2>2 DEF S
    <3> QED BY <2>3, <2>4, <3>1
  <2> HIDE DEF P, most
  <2> QED BY <2>5
<1> HIDE DEF P, prefix
<1>3. prefix \in Nat /\ prefix <= end - start /\ prefix <= Len(new)
  BY <1>1, <1>2
<1> HIDE DEF most
<1>4. rest \in Seq(PatchLines) /\ Len(rest) \in Nat
  BY <1>3 DEF Slice
<1> HIDE DEF rest
<1>5. width \in Nat /\ least \in Nat /\ least <= width /\ least <= Len(rest)
  BY <1>1, <1>3, <1>4 DEF Smaller
<1>6. suffix \in 0..least
  <2> DEFINE S == {n \in 0..least : n = least \/ t[end - n] # rest[Len(rest) - n]}
  <2>1. S \in SUBSET Nat /\ least \in S
    BY <1>5
  <2>2. PICK n \in S : \A m \in S : n <= m
    <3> HIDE DEF S
    <3> QED BY <2>1, LeastIs
  <2>3. ASSUME NEW j \in 0..(n - 1) PROVE t[end - j] = rest[Len(rest) - j]
    <3>1. n \in 0..least
      OBVIOUS
    <3>2. j \in 0..least /\ ~ n <= j
      BY <1>5, <3>1
    <3>3. j \notin S
      BY <2>2, <3>2
    <3> QED BY <3>2, <3>3
  <2>4. n < least => t[end - n] # rest[Len(rest) - n]
    BY <1>5
  <2> HIDE DEF S
  <2>5. n \in 0..least /\ Q(n)
    <3>1. n \in 0..least
      BY <2>2 DEF S
    <3> QED BY <2>3, <2>4, <3>1
  <2> HIDE DEF Q, least
  <2> QED BY <2>5
<1>7. Trim(t, start, end, new) =
        [start |-> start + prefix, end |-> end - suffix, new |-> Slice(rest, 0, Len(rest) - suffix)]
  BY DEF Trim, prefix, suffix, rest, P, Q, most
<1> HIDE DEF Q, suffix, least
<1>8. suffix \in Nat /\ suffix <= width /\ suffix <= Len(rest)
  BY <1>5, <1>6
<1>9. Slice(rest, 0, Len(rest) - suffix) \in Seq(PatchLines)
  BY <1>4, <1>8 DEF Slice
<1>10. start + prefix \in Nat /\ end - suffix \in Nat /\ start <= start + prefix /\ end - suffix <= end
       /\ start + prefix <= end - suffix
  BY <1>1, <1>3, <1>5, <1>8
<1> HIDE DEF width
<1> QED BY <1>7, <1>9, <1>10 DEF Placements, Edits


\* Where lines are found they end within the text.
LEMMA PlacesIn ==
  ASSUME NEW t \in Seq(PatchLines), NEW needle \in Seq(PatchLines), NEW cursor \in Nat, NEW eof, NEW grade
  PROVE  /\ PlacesOf(t, needle, cursor, eof, grade) \subseteq Nat
         /\ \A i \in PlacesOf(t, needle, cursor, eof, grade) :
              cursor <= i /\ i + Len(needle) <= Len(t)
<1>1. Len(t) \in Nat /\ Len(needle) \in Nat
  OBVIOUS
<1>2. CASE needle = <<>> \/ Len(needle) > Len(t)
  BY <1>2 DEF PlacesOf
<1>3. CASE ~ (needle = <<>> \/ Len(needle) > Len(t))
  <2>1. PlacesOf(t, needle, cursor, eof, grade) \subseteq cursor..(Len(t) - Len(needle))
    BY <1>3 DEF PlacesOf
  <2> QED BY <1>1, <2>1
<1> QED BY <1>2, <1>3

\* The one that is chosen.
LEMMA OneIsIn == ASSUME NEW S, S # {} PROVE One(S) \in S
  BY DEF One

LEMMA AtEndFits ==
  ASSUME NEW t \in Seq(PatchLines), NEW acc, Fit(t, acc), NEW new \in Seq(PatchLines)
  PROVE  Fit(t, PlaceAtEnd(t, acc, new))
<1> DEFINE e(text) == [start |-> Len(t), end |-> Len(t), new |-> text]
<1>1. Len(t) \in Nat /\ acc.cursor <= Len(t) /\ <<>> \in Seq(PatchLines)
  BY DEF Fit, Accs
<1>2. \A text \in Seq(PatchLines) : e(text) \in Placements /\ e(text).start = Len(t) /\ e(text).end = Len(t)
  BY <1>1 DEF Placements, Edits
<1>3. PlaceAtEnd(t, acc, new) = Placed(acc, e(<<>>), Len(t)) \/ PlaceAtEnd(t, acc, new) = Placed(acc, e(new), Len(t))
  BY DEF PlaceAtEnd
<1> HIDE DEF e
<1>4. \A text \in Seq(PatchLines) : Fit(t, Placed(acc, e(text), Len(t)))
  BY <1>1, <1>2, PlacedFits
<1> QED BY <1>1, <1>3, <1>4

LEMMA MatchedFits ==
  ASSUME NEW t \in Seq(PatchLines), NEW acc, Fit(t, acc), NEW h \in Hunks
  PROVE  Fit(t, PlaceMatched(t, acc, h))
<1> DEFINE Before(g) == PlacesOf(t, h.old, acc.cursor, h.eof, g)
           New(g) == PlacesOf(t, h.new, acc.cursor, h.eof, g)
           grade == FirstGrade({0, 1, 2}, LAMBDA g : Before(g) # {})
           repeat == FirstGrade({0, 1}, LAMBDA g : Cardinality(New(g)) = 1)
           at == One(Before(grade))
           there == One(New(repeat))
           e == Trim(t, at, at + Len(h.old), h.new)
<1>1. h.old \in Seq(PatchLines) /\ h.new \in Seq(PatchLines) /\ acc.cursor \in Nat
      /\ Len(h.old) \in Nat /\ Len(h.new) \in Nat /\ Len(t) \in Nat
  BY DEF Hunks, Fit, Accs
<1>2. CASE grade < 3 /\ Cardinality(Before(grade)) # 1
  <2>1. PlaceMatched(t, acc, h) = Failed(acc, "ambiguous")
    BY <1>2 DEF PlaceMatched
  <2> QED BY <2>1, FailedFits
<1>3. CASE grade < 3 /\ Cardinality(Before(grade)) = 1
  <2>1. PlaceMatched(t, acc, h) = Placed(acc, e, at + Len(h.old))
    BY <1>3 DEF PlaceMatched
  <2> HIDE DEF grade, Before
  <2>2. Before(grade) # {}
    <3>1. Cardinality({}) # 1
      BY FS_EmptySet
    <3> QED BY <1>3, <3>1, Zenon
  <2>3. at \in Nat /\ acc.cursor <= at /\ at + Len(h.old) <= Len(t)
    BY <1>1, <2>2, OneIsIn, PlacesIn DEF Before
  <2> HIDE DEF at
  <2> DEFINE end == at + Len(h.old)
  <2>4. end \in Nat /\ at <= end
    BY <1>1, <2>3
  <2>5. e \in Placements /\ at <= e.start /\ e.end <= end /\ e.start <= e.end
    <3> HIDE DEF end
    <3> QED BY <1>1, <2>3, <2>4, TrimIs DEF end
  <2>6. e.start \in Nat /\ e.end \in Nat
    BY <2>5 DEF Placements, Edits
  <2> HIDE DEF e
  <2>7. Fit(t, Placed(acc, e, end))
    BY <1>1, <2>3, <2>4, <2>5, <2>6, PlacedFits
  <2> QED BY <2>1, <2>7
<1>4. CASE ~ grade < 3 /\ (h.context \/ Len(h.new) >= 2) /\ NotBlank(h.new) /\ repeat < 3
  <2>1. PlaceMatched(t, acc, h) = [acc EXCEPT !.cursor = there + Len(h.new)]
    BY <1>4 DEF PlaceMatched
  <2>2. Cardinality(New(repeat)) = 1
    <3>1. \E g \in {0, 1} : Cardinality(New(g)) = 1
      BY <1>4 DEF FirstGrade
    <3> HIDE DEF New
    <3>2. \E g \in {0, 1} : Cardinality(New(g)) = 1 /\ \A k \in {0, 1} : k < g => ~ Cardinality(New(k)) = 1
      BY <3>1
    <3>3. repeat = CHOOSE g \in {0, 1} : /\ Cardinality(New(g)) = 1
                                         /\ \A k \in {0, 1} : k < g => ~ Cardinality(New(k)) = 1
      BY <3>1 DEF FirstGrade
    <3> QED BY <3>2, <3>3
  <2> HIDE DEF repeat, New
  <2>3. New(repeat) # {}
    <3>1. Cardinality({}) # 1
      BY FS_EmptySet
    <3> QED BY <2>2, <3>1, Zenon
  <2>4. there \in Nat /\ acc.cursor <= there /\ there + Len(h.new) <= Len(t)
    BY <1>1, <2>3, OneIsIn, PlacesIn DEF New
  <2> HIDE DEF there
  <2>5. there + Len(h.new) \in Nat /\ acc.cursor <= there + Len(h.new)
    BY <1>1, <2>4
  <2> QED BY <2>1, <2>4, <2>5, MoveFits
<1>5. CASE ~ grade < 3 /\ ~ ((h.context \/ Len(h.new) >= 2) /\ NotBlank(h.new) /\ repeat < 3)
  <2>1. PlaceMatched(t, acc, h) = Failed(acc, "not_found")
    BY <1>5 DEF PlaceMatched
  <2> QED BY <2>1, FailedFits
<1> QED BY <1>2, <1>3, <1>4, <1>5

LEMMA HunkFits ==
  ASSUME NEW t \in Seq(PatchLines), NEW acc, Fit(t, acc), NEW h \in Hunks
  PROVE  Fit(t, PlaceHunk(t, acc, h))
<1> DEFINE Lines1 == acc.cursor..(Len(t) - 1)
           Same(i, g) == EqualAt(t[i + 1], h.anchor[1], g)
           grade == FirstGrade({0, 1, 2}, LAMBDA g : \E i \in Lines1 : Same(i, g))
           line == CHOOSE i \in Lines1 : Same(i, grade) /\ \A j \in acc.cursor..(i - 1) : ~ Same(j, grade)
           begun == IF h.anchor = <<>> THEN acc ELSE [acc EXCEPT !.cursor = line + 1]
<1>1. acc.cursor \in Nat /\ Len(t) \in Nat /\ h.new \in Seq(PatchLines)
  BY DEF Fit, Accs, Hunks
<1>2. CASE acc.state # "ok"
  <2>1. PlaceHunk(t, acc, h) = acc
    BY <1>2 DEF PlaceHunk
  <2> QED BY <2>1
<1>3. CASE acc.state = "ok" /\ h.anchor # <<>> /\ grade = 3
  <2>1. PlaceHunk(t, acc, h) = Failed(acc, "not_found")
    BY <1>3 DEF PlaceHunk
  <2> QED BY <2>1, FailedFits
<1>4. CASE acc.state = "ok" /\ ~ (h.anchor # <<>> /\ grade = 3)
  <2>1. PlaceHunk(t, acc, h) = PlaceAtEnd(t, begun, h.new) \/ PlaceHunk(t, acc, h) = PlaceMatched(t, begun, h)
    BY <1>4 DEF PlaceHunk
  <2>2. Fit(t, begun)
    <3>1. CASE h.anchor = <<>>
      BY <3>1
    <3>2. CASE h.anchor # <<>>
      <4>1. \E g \in {0, 1, 2} : \E i \in Lines1 : Same(i, g)
        BY <1>4, <3>2 DEF FirstGrade
      <4> HIDE DEF Same
      <4> DEFINE Good(g) == \E i \in Lines1 : Same(i, g)
      <4>2. \E g \in {0, 1, 2} : Good(g) /\ \A k \in {0, 1, 2} : k < g => ~ Good(k)
        <5> HIDE DEF Good
        <5>1. \E g \in {0, 1, 2} : Good(g)
          BY <4>1 DEF Good
        <5> QED BY <5>1
      <4>3. Good(grade)
        <5>1. grade = CHOOSE g \in {0, 1, 2} : Good(g) /\ \A k \in {0, 1, 2} : k < g => ~ Good(k)
          BY <4>1 DEF FirstGrade
        <5> HIDE DEF Good, grade
        <5> QED BY <4>2, <5>1
      <4> HIDE DEF grade
      <4> DEFINE S == {i \in Lines1 : Same(i, grade)}
      <4>4. S \in SUBSET Nat /\ S # {}
        BY <1>1, <4>3
      <4>5. PICK i \in S : \A j \in S : i <= j
        <5> HIDE DEF S
        <5> QED BY <4>4, LeastIs
      <4>6. i \in Lines1 /\ Same(i, grade) /\ \A j \in acc.cursor..(i - 1) : ~ Same(j, grade)
        <5>1. i \in Lines1 /\ Same(i, grade)
          OBVIOUS
        <5>2. ASSUME NEW j \in acc.cursor..(i - 1) PROVE ~ Same(j, grade)
          <6>1. j \in Lines1 /\ ~ i <= j
            BY <1>1, <5>1
          <6> QED BY <4>5, <6>1
        <5> QED BY <5>1, <5>2
      <4>7. line \in Lines1
        BY <4>6
      <4> HIDE DEF line
      <4>8. line + 1 \in Nat /\ acc.cursor <= line + 1 /\ line + 1 <= Len(t)
        BY <1>1, <4>7
      <4> QED BY <3>2, <4>8, MoveFits
    <3> QED BY <3>1, <3>2
  <2> HIDE DEF begun
  <2> QED BY <1>1, <2>1, <2>2, AtEndFits, MatchedFits
<1> QED BY <1>2, <1>3, <1>4


\* A recursion over the numbers up to n, by a step that stays in a set.
IsFold(f, base, n, step) == f[0] = base /\ \A k \in 1..n : f[k] = step[<<k, f[k - 1]>>]

LEMMA FoldExists ==
  ASSUME NEW S, NEW base, base \in S, NEW n \in Nat, NEW step \in [(1..n) \X S -> S]
  PROVE  \E f \in [0..n -> S] : IsFold(f, base, n, step)
<1> DEFINE Upto(k, f) == /\ f \in [0..k -> S] /\ f[0] = base
                         /\ \A i \in 1..k : f[i] = step[<<i, f[i - 1]>>]
           Good == {k \in Nat : k <= n => \E f : Upto(k, f)}
<1>1. 0 \in Good
  <2>1. Upto(0, [k \in 0..0 |-> base])
    OBVIOUS
  <2> QED BY <2>1
<1>2. ASSUME NEW k \in Nat, k \in Good PROVE k + 1 \in Good
  <2> SUFFICES ASSUME k + 1 <= n PROVE \E f : Upto(k + 1, f)
    <3> HIDE DEF Upto
    <3> QED OBVIOUS
  <2>1. PICK f : Upto(k, f)
    <3> HIDE DEF Upto
    <3> QED BY <1>2
  <2> DEFINE next == step[<<k + 1, f[k]>>]
             g == [i \in 0..(k + 1) |-> IF i = k + 1 THEN next ELSE f[i]]
  <2>2. f[k] \in S /\ k + 1 \in 1..n
    BY <2>1
  <2>3. next \in S
    BY <2>2
  <2> HIDE DEF next
  <2>4. g \in [0..(k + 1) -> S] /\ g[k + 1] = next /\ \A i \in 0..k : g[i] = f[i]
    BY <2>1, <2>3
  <2> HIDE DEF g
  <2>5. ASSUME NEW i \in 1..(k + 1) PROVE g[i] = step[<<i, g[i - 1]>>]
    <3>1. CASE i = k + 1
      BY <2>4, <3>1 DEF next
    <3>2. CASE i \in 1..k
      <4>1. g[i] = f[i] /\ g[i - 1] = f[i - 1]
        BY <2>4, <3>2
      <4> QED BY <2>1, <3>2, <4>1
    <3> QED BY <3>1, <3>2
  <2>6. Upto(k + 1, g)
    BY <2>1, <2>4, <2>5
  <2> HIDE DEF Upto
  <2> QED BY <2>6
<1>3. PICK f : Upto(n, f)
  <2>1. Nat \subseteq Good
    <3> HIDE DEF Good
    <3> QED BY <1>1, <1>2, Induction
  <2> HIDE DEF Upto
  <2> QED BY <2>1
<1> QED BY <1>3 DEF IsFold

LEMMA FoldStays ==
  ASSUME NEW S, NEW n \in Nat, NEW f, f[0] \in S, \A k \in 1..n : f[k - 1] \in S => f[k] \in S
  PROVE  \A k \in 0..n : f[k] \in S
<1> DEFINE Good == {k \in Nat : k <= n => f[k] \in S}
<1>1. 0 \in Good
  OBVIOUS
<1>2. ASSUME NEW k \in Nat, k \in Good PROVE k + 1 \in Good
  <2>1. k + 1 <= n => k + 1 \in 1..n /\ (k + 1) - 1 = k
    OBVIOUS
  <2> QED BY <1>2, <2>1
<1>3. Nat \subseteq Good
  <2> HIDE DEF Good
  <2> QED BY <1>1, <1>2, Induction
<1> QED BY <1>3


IsPlacing(f, t, hunks) ==
  f = [k \in 0..Len(hunks) |-> IF k = 0 THEN NothingPlaced ELSE PlaceHunk(t, f[k - 1], hunks[k])]

\* However many hunks there are.
LEMMA HunksFit ==
  ASSUME NEW t \in Seq(PatchLines), NEW hunks \in Seq(Hunks)
  PROVE  Fit(t, PlacedHunks(t, hunks))
<1> DEFINE n == Len(hunks)
           S == {acc \in Accs : Fit(t, acc)}
           step == [pair \in (1..n) \X S |-> PlaceHunk(t, pair[2], hunks[pair[1]])]
           placing == CHOOSE f : IsPlacing(f, t, hunks)
<1>1. n \in Nat /\ \A k \in 1..n : hunks[k] \in Hunks
  OBVIOUS
<1>2. \A acc : Fit(t, acc) => acc \in S
  BY DEF Fit, Accs
<1>3. NothingPlaced \in S
  <2>1. NothingPlaced \in Accs /\ NothingPlaced.placements = <<>> /\ NothingPlaced.cursor = 0
    BY DEF NothingPlaced, Accs
  <2>2. InOrder(<<>>, 0) /\ 0 <= Len(t)
    BY DEF InOrder
  <2> QED BY <2>1, <2>2 DEF Fit, Accs
<1>4. \A k \in 1..n, acc \in S : PlaceHunk(t, acc, hunks[k]) \in S
  BY <1>1, <1>2, HunkFits
<1> HIDE DEF S, n
<1>5. step \in [(1..n) \X S -> S] /\ \A k \in 1..n, acc \in S : step[<<k, acc>>] = PlaceHunk(t, acc, hunks[k])
  BY <1>4
<1> HIDE DEF step
<1>6. \E f : IsPlacing(f, t, hunks)
  <2>0. PICK f \in [0..n -> S] : IsFold(f, NothingPlaced, n, step)
    <3>1. n \in Nat
      BY <1>1
    <3>2. step \in [(1..n) \X S -> S]
      BY <1>5
    <3> HIDE DEF NothingPlaced
    <3> QED BY <1>3, <3>1, <3>2, FoldExists, Zenon
  <2>1. /\ f \in [0..n -> S] /\ f[0] = NothingPlaced
        /\ \A k \in 1..n : f[k] = step[<<k, f[k - 1]>>]
    BY <2>0 DEF IsFold
  <2>2. ASSUME NEW k \in 0..n
        PROVE  f[k] = IF k = 0 THEN NothingPlaced ELSE PlaceHunk(t, f[k - 1], hunks[k])
    <3>1. CASE k = 0
      BY <2>1, <3>1
    <3>2. CASE k # 0
      <4>1. k \in 1..n /\ k - 1 \in 0..n
        BY <1>1, <3>2
      <4>2. f[k] = step[<<k, f[k - 1]>>] /\ f[k - 1] \in S
        BY <2>1, <4>1
      <4> QED BY <1>5, <3>2, <4>1, <4>2
    <3> QED BY <3>1, <3>2
  <2>3. f = [k \in 0..n |-> f[k]]
    BY <2>1
  <2> QED BY <2>2, <2>3 DEF IsPlacing, n
<1>7. PlacedHunks(t, hunks) = placing[n]
  BY DEF PlacedHunks, IsPlacing, n
<1>8. placing = [k \in 0..n |-> IF k = 0 THEN NothingPlaced ELSE PlaceHunk(t, placing[k - 1], hunks[k])]
  <2>1. IsPlacing(placing, t, hunks)
    BY <1>6
  <2> HIDE DEF placing
  <2> QED BY <2>1 DEF IsPlacing, n
<1> HIDE DEF placing
<1>9. placing[0] = NothingPlaced /\ \A k \in 1..n : placing[k] = PlaceHunk(t, placing[k - 1], hunks[k])
  <2>1. 0 \in 0..n /\ \A k \in 1..n : k \in 0..n /\ k # 0
    BY <1>1 DEF n
  <2> QED BY <1>8, <2>1
<1>10. \A k \in 0..n : placing[k] \in S
  <2>1. placing[0] \in S /\ \A k \in 1..n : placing[k - 1] \in S => placing[k] \in S
    BY <1>3, <1>4, <1>9
  <2> QED BY <1>1, <2>1, FoldStays
<1>11. n \in 0..n
  BY <1>1
<1> QED BY <1>7, <1>10, <1>11 DEF S


----------------------------------------------------------------------------
(* The ranges of placements, and the text they give.                       *)

\* How far what follows the first i placements has moved.
Shifts(places, D) ==
  /\ D \in [0..Len(places) -> Int] /\ D[0] = 0
  /\ \A i \in 1..Len(places) : D[i] = D[i - 1] + Len(places[i].new) - places[i].end + places[i].start
RangeAt(places, D, i) ==
  [first |-> places[i].start + D[i - 1] + 1, last |-> places[i].start + D[i - 1] + Len(places[i].new),
   new |-> places[i].new]
RangesAt(places, D, k, ranges) ==
  /\ DOMAIN ranges = 1..k /\ Len(ranges) = k
  /\ \A i \in 1..k : ranges[i] = RangeAt(places, D, i)

Ranging == [ranges |-> <<>>, added |-> 0, removed |-> 0]
IsRanging(f, places) ==
  f = [k \in 0..Len(places) |-> IF k = 0 THEN Ranging ELSE Shifted(f[k - 1], places[k])]
Rangings(X) ==
  [ranges : Seq([first : Int, last : Int, new : Seq(X)]), added : Int, removed : Int]

LEMMA ShiftedIs ==
  ASSUME NEW X, NEW acc \in Rangings(X), NEW e \in Edits(X)
  PROVE  /\ Shifted(acc, e) \in Rangings(X)
         /\ Shifted(acc, e).added = acc.added + Len(e.new)
         /\ Shifted(acc, e).removed = acc.removed + e.end - e.start
         /\ Shifted(acc, e).ranges =
              Append(acc.ranges, [first |-> e.start + (acc.added - acc.removed) + 1,
                                  last |-> e.start + (acc.added - acc.removed) + Len(e.new), new |-> e.new])
<1> DEFINE first == e.start + acc.added + 1 - acc.removed
           range == [first |-> first, last |-> first + Len(e.new) - 1, new |-> e.new]
<1>1. /\ e.start \in Nat /\ e.end \in Nat /\ e.new \in Seq(X) /\ Len(e.new) \in Nat
      /\ acc.added \in Int /\ acc.removed \in Int
      /\ acc.ranges \in Seq([first : Int, last : Int, new : Seq(X)])
  BY DEF Edits, Rangings
<1>2. Shifted(acc, e) = [ranges |-> Append(acc.ranges, range), added |-> acc.added + Len(e.new),
                         removed |-> acc.removed + e.end - e.start]
  BY DEF Shifted
<1>3. range = [first |-> e.start + (acc.added - acc.removed) + 1,
               last |-> e.start + (acc.added - acc.removed) + Len(e.new), new |-> e.new]
  <2>1. first = e.start + (acc.added - acc.removed) + 1
    BY <1>1
  <2> HIDE DEF first
  <2>2. e.start \in Nat /\ Len(e.new) \in Nat /\ acc.added \in Int /\ acc.removed \in Int
    BY <1>1
  <2>3. first + Len(e.new) - 1 = e.start + (acc.added - acc.removed) + Len(e.new)
    BY <2>1, <2>2
  <2> QED BY <2>1, <2>3
<1>4. range \in [first : Int, last : Int, new : Seq(X)]
  BY <1>1
<1> HIDE DEF range, first
<1>5. Append(acc.ranges, range) \in Seq([first : Int, last : Int, new : Seq(X)])
  BY <1>1, <1>4
<1>6. acc.added + Len(e.new) \in Int /\ acc.removed + e.end - e.start \in Int
  BY <1>1
<1> QED BY <1>2, <1>3, <1>5, <1>6 DEF Rangings

LEMMA RangesAre ==
  ASSUME NEW X, NEW places \in Seq(Edits(X))
  PROVE  \E D : Shifts(places, D) /\ RangesAt(places, D, Len(places), Ranges(places).ranges)
<1> DEFINE n == Len(places)
           S == Rangings(X)
           step == [pair \in (1..n) \X S |-> Shifted(pair[2], places[pair[1]])]
           upto == CHOOSE f : IsRanging(f, places)
<1>1. n \in Nat /\ \A k \in 1..n : places[k] \in Edits(X)
  OBVIOUS
<1>3. Ranging \in S
  BY DEF Ranging, Rangings
<1>4. \A k \in 1..n, acc \in S : Shifted(acc, places[k]) \in S
  BY <1>1, ShiftedIs
<1> HIDE DEF S, n
<1>5. step \in [(1..n) \X S -> S] /\ \A k \in 1..n, acc \in S : step[<<k, acc>>] = Shifted(acc, places[k])
  BY <1>4
<1> HIDE DEF step
<1>6. \E f : IsRanging(f, places)
  <2>0. PICK f \in [0..n -> S] : IsFold(f, Ranging, n, step)
    <3>1. n \in Nat
      BY <1>1
    <3>2. step \in [(1..n) \X S -> S]
      BY <1>5
    <3> QED BY <1>3, <3>1, <3>2, FoldExists, Zenon
  <2>1. /\ f \in [0..n -> S] /\ f[0] = Ranging
        /\ \A k \in 1..n : f[k] = step[<<k, f[k - 1]>>]
    BY <2>0 DEF IsFold
  <2>2. ASSUME NEW k \in 0..n
        PROVE  f[k] = IF k = 0 THEN Ranging ELSE Shifted(f[k - 1], places[k])
    <3>1. CASE k = 0
      BY <2>1, <3>1
    <3>2. CASE k # 0
      <4>1. k \in 1..n /\ k - 1 \in 0..n
        BY <1>1, <3>2
      <4>2. f[k] = step[<<k, f[k - 1]>>] /\ f[k - 1] \in S
        BY <2>1, <4>1
      <4> QED BY <1>5, <3>2, <4>1, <4>2
    <3> QED BY <3>1, <3>2
  <2>3. f = [k \in 0..n |-> f[k]]
    BY <2>1
  <2> QED BY <2>2, <2>3 DEF IsRanging, n
<1>7. Ranges(places) = upto[n]
  BY DEF Ranges, IsRanging, Ranging, n
<1>8. upto = [k \in 0..n |-> IF k = 0 THEN Ranging ELSE Shifted(upto[k - 1], places[k])]
  <2>1. IsRanging(upto, places)
    BY <1>6
  <2> HIDE DEF upto
  <2> QED BY <2>1 DEF IsRanging, n
<1> HIDE DEF upto
<1>9. upto[0] = Ranging /\ \A k \in 1..n : upto[k] = Shifted(upto[k - 1], places[k])
  <2>1. 0 \in 0..n /\ \A k \in 1..n : k \in 0..n /\ k # 0
    BY <1>1 DEF n
  <2> QED BY <1>8, <2>1
<1>10. \A k \in 0..n : upto[k] \in S
  <2>1. upto[0] \in S /\ \A k \in 1..n : upto[k - 1] \in S => upto[k] \in S
    BY <1>3, <1>4, <1>9
  <2> QED BY <1>1, <2>1, FoldStays
<1> DEFINE D == [k \in 0..n |-> upto[k].added - upto[k].removed]
<1>11. ASSUME NEW k \in 1..n
       PROVE  /\ upto[k].added = upto[k - 1].added + Len(places[k].new)
              /\ upto[k].removed = upto[k - 1].removed + places[k].end - places[k].start
              /\ upto[k].ranges = Append(upto[k - 1].ranges, RangeAt(places, D, k))
              /\ D[k - 1] = upto[k - 1].added - upto[k - 1].removed
              /\ D[k] = upto[k].added - upto[k].removed
              /\ upto[k - 1] \in S
  <2>1. k - 1 \in 0..n /\ k \in 0..n
    BY <1>1
  <2>2. upto[k - 1] \in S /\ places[k] \in Edits(X) /\ upto[k] = Shifted(upto[k - 1], places[k])
    BY <1>1, <1>9, <1>10, <2>1
  <2>3. D[k - 1] = upto[k - 1].added - upto[k - 1].removed /\ D[k] = upto[k].added - upto[k].removed
    BY <2>1
  <2> HIDE DEF D
  <2> QED BY <2>2, <2>3, ShiftedIs DEF S, RangeAt
<1>12. Shifts(places, D)
  <2>1. \A k \in 0..n : upto[k].added \in Int /\ upto[k].removed \in Int
    BY <1>10 DEF S, Rangings
  <2>2. D \in [0..n -> Int]
    BY <2>1
  <2>3. D[0] = 0
    BY <1>1, <1>9 DEF Ranging
  <2> HIDE DEF D
  <2>4. ASSUME NEW k \in 1..n
        PROVE  D[k] = D[k - 1] + Len(places[k].new) - places[k].end + places[k].start
    <3>1. /\ places[k].start \in Nat /\ places[k].end \in Nat /\ Len(places[k].new) \in Nat
          /\ k - 1 \in 0..n /\ k \in 0..n
      BY <1>1 DEF Edits
    <3>2. upto[k - 1].added \in Int /\ upto[k - 1].removed \in Int
      BY <2>1, <3>1
    <3>3. D[k] = upto[k].added - upto[k].removed /\ D[k - 1] = upto[k - 1].added - upto[k - 1].removed
      BY <1>11
    <3>4. /\ upto[k].added = upto[k - 1].added + Len(places[k].new)
          /\ upto[k].removed = upto[k - 1].removed + places[k].end - places[k].start
      BY <1>11
    <3>5. D[k] = (upto[k - 1].added + Len(places[k].new)) - (upto[k - 1].removed + places[k].end - places[k].start)
      BY <3>3, <3>4
    <3> DEFINE a == upto[k - 1].added
               b == upto[k - 1].removed
               l == Len(places[k].new)
               x == places[k].end
               s == places[k].start
    <3>7. a \in Int /\ b \in Int /\ l \in Nat /\ x \in Nat /\ s \in Nat /\ D[k - 1] = a - b
      BY <3>1, <3>2, <3>3
    <3>8. D[k] = (a + l) - (b + x - s)
      BY <3>5
    <3> SUFFICES D[k] = D[k - 1] + l - x + s
      OBVIOUS
    <3> HIDE DEF a, b, l, x, s
    <3> QED BY <3>7, <3>8
  <2> QED BY <2>2, <2>3, <2>4 DEF Shifts, n
<1>13. ASSUME NEW k \in 0..n PROVE RangesAt(places, D, k, upto[k].ranges)
  <2> DEFINE Good == {i \in Nat : i <= n => RangesAt(places, D, i, upto[i].ranges)}
  <2> HIDE DEF D
  <2>1. 0 \in Good
    BY <1>9 DEF Ranging, RangesAt
  <2>2. ASSUME NEW i \in Nat, i \in Good PROVE i + 1 \in Good
    <3> SUFFICES ASSUME i + 1 <= n PROVE RangesAt(places, D, i + 1, upto[i + 1].ranges)
      OBVIOUS
    <3>1. i + 1 \in 1..n /\ (i + 1) - 1 = i /\ RangesAt(places, D, i, upto[i].ranges)
      BY <1>1, <2>2
    <3>2. upto[i + 1].ranges = Append(upto[i].ranges, RangeAt(places, D, i + 1)) /\ upto[i] \in S
      BY <1>11, <3>1
    <3>3. upto[i].ranges \in Seq([first : Int, last : Int, new : Seq(X)])
      BY <3>2 DEF S, Rangings
    <3> DEFINE r == RangeAt(places, D, i + 1)
    <3> HIDE DEF r
    <3>4. /\ DOMAIN upto[i + 1].ranges = 1..(i + 1) /\ Len(upto[i + 1].ranges) = i + 1
          /\ upto[i + 1].ranges[i + 1] = r
          /\ \A j \in 1..i : upto[i + 1].ranges[j] = upto[i].ranges[j]
      BY <3>1, <3>2, <3>3 DEF RangesAt, r
    <3>5. ASSUME NEW j \in 1..(i + 1) PROVE upto[i + 1].ranges[j] = RangeAt(places, D, j)
      <4>1. CASE j = i + 1
        BY <3>4, <4>1 DEF r
      <4>2. CASE j \in 1..i
        <5>1. upto[i].ranges[j] = RangeAt(places, D, j)
          BY <3>1, <4>2 DEF RangesAt
        <5> QED BY <3>4, <4>2, <5>1
      <4> QED BY <4>1, <4>2
    <3> QED BY <3>4, <3>5 DEF RangesAt
  <2>3. Nat \subseteq Good
    <3> HIDE DEF Good
    <3> QED BY <2>1, <2>2, Induction
  <2> QED BY <1>1, <2>3
<1>14. n \in 0..n
  BY <1>1
<1> HIDE DEF D
<1> QED BY <1>7, <1>12, <1>13, <1>14 DEF n

IsSpliced(X, s, a, b, new, u) ==
  /\ u \in Seq(X) /\ Len(u) = a + Len(new) + Len(s) - b
  /\ \A p \in 1..a : u[p] = s[p]
  /\ \A p \in 1..Len(new) : u[a + p] = new[p]
  /\ \A p \in (b + 1)..Len(s) : u[p + a + Len(new) - b] = s[p]

LEMMA SpliceIs ==
  ASSUME NEW X, NEW s \in Seq(X), NEW new \in Seq(X), NEW a \in Nat, NEW b \in Nat, a <= b, b <= Len(s),
         NEW u, u = Splice(s, a, b, new)
  PROVE  IsSpliced(X, s, a, b, new, u)
<1> DEFINE one == SubSeq(s, 1, a)
           three == SubSeq(s, b + 1, Len(s))
<1>1. Len(s) \in Nat /\ Len(new) \in Nat /\ a <= Len(s)
  OBVIOUS
<1>2. one \in Seq(X) /\ Len(one) = a /\ \A p \in 1..a : one[p] = s[p]
  BY <1>1
<1>3. /\ three \in Seq(X) /\ Len(three) = Len(s) - b
      /\ \A p \in 1..(Len(s) - b) : three[p] = s[p + b]
  BY <1>1
<1>4. u = (one \o new) \o three
  BY DEF Splice, Slice
<1> HIDE DEF one, three
<1>5. one \o new \in Seq(X) /\ Len(one \o new) = a + Len(new)
  BY <1>2
<1>6. u \in Seq(X) /\ Len(u) = a + Len(new) + (Len(s) - b)
  <2> DEFINE two == one \o new
  <2>0. Len(two) = a + Len(new)
    BY <1>5
  <2>1. two \in Seq(X) /\ u = two \o three
    BY <1>4, <1>5
  <2> HIDE DEF two
  <2>2. three \in Seq(X)
    BY <1>3
  <2>3. u \in Seq(X) /\ Len(u) = Len(two) + Len(three)
    BY <2>1, <2>2
  <2> QED BY <1>3, <2>0, <2>3
<1>7. ASSUME NEW p \in 1..a PROVE u[p] = s[p]
  BY <1>1, <1>2, <1>3, <1>4, <1>5
<1>8. ASSUME NEW p \in 1..Len(new) PROVE u[a + p] = new[p]
  <2>1. a + p \in 1..Len(one \o new) /\ a + p \in Nat
    BY <1>1, <1>5
  <2>2. u[a + p] = (one \o new)[a + p]
    BY <1>3, <1>4, <1>5, <2>1
  <2> QED BY <1>1, <1>2, <2>1, <2>2
<1>9. ASSUME NEW p \in (b + 1)..Len(s) PROVE u[p + a + Len(new) - b] = s[p]
  <2> DEFINE q == p - b
  <2>1. q \in 1..(Len(s) - b) /\ q + b = p /\ p + a + Len(new) - b = a + Len(new) + q
    BY <1>1
  <2> HIDE DEF q
  <2>2. u[a + Len(new) + q] = three[q]
    BY <1>1, <1>3, <1>4, <1>5, <2>1
  <2> QED BY <1>3, <2>1, <2>2
<1>10. Len(u) = a + Len(new) + Len(s) - b
  BY <1>1, <1>6
<1> QED BY <1>6, <1>7, <1>8, <1>9, <1>10 DEF IsSpliced

\* Where the next placement begins, or the text ends.
Bound(t, places, m) == IF m = Len(places) THEN Len(t) ELSE places[m + 1].start
\* The text after all placements but the first m.
Laid(X, t, places, D, m, u) ==
  /\ u \in Seq(X) /\ Len(u) = Len(t) + D[Len(places)] - D[m]
  /\ Bound(t, places, m) <= Len(u)
  /\ \A l \in 1..Bound(t, places, m) : u[l] = t[l]
  /\ \A i \in (m + 1)..Len(places) :
       /\ Bound(t, places, m) <= places[i].start + D[i - 1] - D[m]
       /\ Bound(t, places, i) + D[i] - D[m] <= Len(u)
       /\ \A j \in 1..Len(places[i].new) : u[places[i].start + D[i - 1] - D[m] + j] = places[i].new[j]
       /\ \A l \in (places[i].end + 1)..Bound(t, places, i) : u[l + D[i] - D[m]] = t[l]

LEMMA BoundIs ==
  ASSUME NEW X, NEW t \in Seq(X), NEW places \in Seq(Edits(X)), InOrder(places, Len(t)),
         NEW i \in 0..Len(places)
  PROVE  /\ i # 0 => places[i].start \in Nat /\ places[i].end \in Nat /\ places[i].new \in Seq(X)
         /\ Bound(t, places, i) \in Nat /\ Bound(t, places, i) <= Len(t)
         /\ i # 0 => places[i].start <= places[i].end /\ places[i].end <= Bound(t, places, i)
<1>1. \A k \in 1..Len(places) : /\ places[k].start \in Nat /\ places[k].end \in Nat
                                /\ places[k].new \in Seq(X)
                                /\ places[k].start <= places[k].end /\ places[k].end <= Len(t)
  <2>1. \A k \in 1..Len(places) : places[k] \in Edits(X)
    OBVIOUS
  <2> QED BY <2>1 DEF Edits, InOrder
<1>2. i # 0 => i \in 1..Len(places)
  OBVIOUS
<1>3. CASE i = Len(places)
  BY <1>1, <1>2, <1>3 DEF Bound
<1>4. CASE i # Len(places)
  <2>1. i + 1 \in 1..Len(places) /\ (i # 0 => i \in 1..(Len(places) - 1))
    BY <1>4
  <2>2. i # 0 => places[i].end <= places[i + 1].start
    BY <2>1 DEF InOrder
  <2>3. Bound(t, places, i) = places[i + 1].start
    BY <1>4 DEF Bound
  <2> QED BY <1>1, <1>2, <2>1, <2>2, <2>3
<1> QED BY <1>3, <1>4

\* Applying one more placement.
LEMMA LaidStep ==
  ASSUME NEW X, NEW t \in Seq(X), NEW places \in Seq(Edits(X)), InOrder(places, Len(t)),
         NEW D, Shifts(places, D), NEW m \in 1..Len(places), NEW u, Laid(X, t, places, D, m, u)
  PROVE  Laid(X, t, places, D, m - 1, Splice(u, places[m].start, places[m].end, places[m].new))
<1> DEFINE n == Len(places)
           s == places[m].start
           e == places[m].end
           new == places[m].new
           w == Len(new)
           v == Splice(u, s, e, new)
           b == Bound(t, places, m)
           d == D[m]
           c == D[m - 1]
<1>0. m \in 0..n /\ m # 0
  OBVIOUS
<1>1. /\ s \in Nat /\ e \in Nat /\ new \in Seq(X) /\ w \in Nat /\ s <= e /\ e <= b /\ b \in Nat
  <2>1. s \in Nat /\ e \in Nat /\ new \in Seq(X) /\ s <= e /\ e <= b /\ b \in Nat
    BY <1>0, BoundIs
  <2> QED BY <2>1
<1>2. d \in Int /\ c \in Int /\ d = c + w - e + s
  BY DEF Shifts
<1>3. /\ u \in Seq(X) /\ Len(u) \in Nat /\ Len(u) = Len(t) + D[n] - d /\ b <= Len(u)
      /\ \A l \in 1..b : u[l] = t[l]
  BY DEF Laid
<1>4. /\ v \in Seq(X) /\ Len(v) = s + w + Len(u) - e
      /\ \A p \in 1..s : v[p] = u[p]
      /\ \A p \in 1..w : v[s + p] = new[p]
      /\ \A p \in (e + 1)..Len(u) : v[p + s + w - e] = u[p]
  <2>1. e <= Len(u)
    <3> HIDE DEF e, b
    <3> QED BY <1>1, <1>3
  <2>2. v = Splice(u, s, e, new) /\ u \in Seq(X)
    BY <1>3
  <2>3. s \in Nat /\ e \in Nat /\ s <= e /\ new \in Seq(X)
    BY <1>1
  <2> HIDE DEF v, s, e, new
  <2>4. IsSpliced(X, u, s, e, new, v)
    BY <2>1, <2>2, <2>3, SpliceIs
  <2> QED BY <2>4 DEF IsSpliced
<1>5. Bound(t, places, m - 1) = s
  BY DEF Bound
<1>6. D[n] \in Int /\ Len(t) \in Nat
  BY DEF Shifts
<1>7. Len(v) = Len(t) + D[n] - c /\ s <= Len(v)
  <2> DEFINE lu == Len(u)
             lv == Len(v)
             lt == Len(t)
             dn == D[n]
  <2>1. /\ s \in Nat /\ e \in Nat /\ w \in Nat /\ b \in Nat /\ e <= b /\ b <= lu
        /\ d \in Int /\ c \in Int /\ d = c + w - e + s
        /\ lu \in Nat /\ lt \in Nat /\ dn \in Int /\ lu = lt + dn - d /\ lv = s + w + lu - e
    BY <1>1, <1>2, <1>3, <1>4, <1>6
  <2> SUFFICES lv = lt + dn - c /\ s <= lv
    OBVIOUS
  <2> HIDE DEF n, s, e, w, v, b, c, d, lu, lv, lt, dn
  <2> QED BY <2>1
<1>8. \A l \in 1..s : v[l] = t[l]
  <2> HIDE DEF n, s, e, w, v, b, c, d
  <2> QED BY <1>1, <1>3, <1>4
<1>9. ASSUME NEW i \in m..n
      PROVE  /\ s <= places[i].start + D[i - 1] - c
             /\ Bound(t, places, i) + D[i] - c <= Len(v)
             /\ \A j \in 1..Len(places[i].new) : v[places[i].start + D[i - 1] - c + j] = places[i].new[j]
             /\ \A l \in (places[i].end + 1)..Bound(t, places, i) : v[l + D[i] - c] = t[l]
  <2>1. CASE i = m
    <3>1. b + d - c <= Len(v)
      <4> HIDE DEF n, s, e, w, v, b, c, d
      <4> QED BY <1>1, <1>2, <1>3, <1>4
    <3>2. s + c - c = s
      <4> HIDE DEF s, c
      <4> QED BY <1>1, <1>2
    <3>3. ASSUME NEW l \in (e + 1)..b PROVE v[l + d - c] = t[l]
      <4> HIDE DEF n, s, e, w, v, b, c, d
      <4>1. l \in (e + 1)..Len(u) /\ l \in 1..b /\ l + d - c = l + s + w - e
        BY <1>1, <1>2, <1>3
      <4> QED BY <1>3, <1>4, <4>1
    <3>4. \A j \in 1..w : v[s + c - c + j] = new[j]
      <4> HIDE DEF n, s, e, w, v, b, c, d, new
      <4> QED BY <1>4, <3>2
    <3>5. s <= s + c - c
      <4> HIDE DEF s, c
      <4> QED BY <1>1, <3>2
    <3>6. /\ s = places[i].start /\ c = D[i - 1] /\ d = D[i] /\ b = Bound(t, places, i)
          /\ new = places[i].new /\ w = Len(places[i].new) /\ e = places[i].end
      BY <2>1
    <3> HIDE DEF n, s, e, w, v, b, c, d, new
    <3> QED BY <3>1, <3>3, <3>4, <3>5, <3>6
  <2>2. CASE i \in (m + 1)..n
    <3> DEFINE si == places[i].start
               ei == places[i].end
               wi == Len(places[i].new)
               bi == Bound(t, places, i)
               di == D[i]
               ci == D[i - 1]
    <3>0. i \in 1..n /\ i \in 0..n /\ i # 0 /\ i - 1 \in 0..n
      BY <2>2
    <3>1. /\ si \in Nat /\ ei \in Nat /\ wi \in Nat /\ bi \in Nat /\ si <= ei /\ ei <= bi
      <4>1. /\ si \in Nat /\ ei \in Nat /\ bi \in Nat /\ si <= ei /\ ei <= bi
            /\ places[i].new \in Seq(X)
        BY <3>0, BoundIs
      <4> QED BY <4>1
    <3>2. di \in Int /\ ci \in Int /\ di = ci + wi - ei + si
      BY <3>0 DEF Shifts
    <3>3. /\ b <= si + ci - d /\ bi + di - d <= Len(u)
          /\ \A j \in 1..wi : u[si + ci - d + j] = places[i].new[j]
          /\ \A l \in (ei + 1)..bi : u[l + di - d] = t[l]
      BY <2>2 DEF Laid
    <3> HIDE DEF n, s, e, w, v, b, c, d, si, ei, wi, bi, di, ci
    <3>7. /\ s \in Nat /\ w \in Nat /\ e \in Nat /\ b \in Nat /\ e <= b
          /\ d \in Int /\ c \in Int /\ d = c + w - e + s
      BY <1>1, <1>2
    <3>8. b <= si + ci - d /\ bi + di - d <= Len(u)
      BY <3>3
    <3>9. Len(u) \in Nat
      BY <1>3
    <3>4. s <= si + ci - c /\ bi + di - c <= Len(v)
      BY <1>1, <1>2, <1>3, <1>4, <3>1, <3>2, <3>3
    <3>5. ASSUME NEW j \in 1..wi PROVE v[si + ci - c + j] = places[i].new[j]
      <4> DEFINE p == si + ci - d + j
      <4>1. p \in (e + 1)..Len(u) /\ si + ci - c + j = p + s + w - e
        BY <3>1, <3>2, <3>7, <3>8, <3>9
      <4>2. u[p] = places[i].new[j]
        BY <3>3
      <4> HIDE DEF p
      <4> QED BY <1>4, <4>1, <4>2
    <3>6. ASSUME NEW l \in (ei + 1)..bi PROVE v[l + di - c] = t[l]
      <4> DEFINE p == l + di - d
      <4> DEFINE lu == Len(u)
      <4>0. /\ l \in Int /\ ei + 1 <= l /\ l <= bi /\ s \in Nat /\ w \in Nat /\ e \in Nat /\ e <= b
            /\ b \in Nat /\ si \in Nat /\ ei \in Nat /\ wi \in Nat /\ bi \in Nat /\ ci \in Int /\ d \in Int
            /\ c \in Int /\ di \in Int /\ d = c + w - e + s /\ di = ci + wi - ei + si
        BY <1>1, <1>2, <3>1, <3>2
      <4>00. b <= si + ci - d /\ bi + di - d <= lu /\ lu \in Nat
        BY <1>3, <3>3
      <4>1. p \in (e + 1)..lu /\ l + di - c = p + s + w - e
        <5> HIDE DEF lu
        <5> QED BY <4>0, <4>00
      <4>2. u[p] = t[l]
        BY <3>3
      <4> HIDE DEF p
      <4> QED BY <1>4, <4>1, <4>2
    <3>10. \A j \in 1..wi : v[si + ci - c + j] = places[i].new[j]
      BY <3>5
    <3>11. \A l \in (ei + 1)..bi : v[l + di - c] = t[l]
      BY <3>6
    <3> QED BY <3>4, <3>10, <3>11 DEF si, ei, wi, bi, di, ci
  <2>3. i = m \/ i \in (m + 1)..n
    OBVIOUS
  <2> QED BY <2>1, <2>2, <2>3
<1>10. (m - 1) + 1 = m
  OBVIOUS
<1> QED
  <2> HIDE DEF v, s
  <2>1. Laid(X, t, places, D, m - 1, v)
    BY <1>4, <1>5, <1>7, <1>8, <1>9, <1>10 DEF Laid
  <2> QED BY <2>1 DEF v, s

EditOf(places, k) == places[Len(places) + 1 - k]
IsSplicing(f, t, places) ==
  f = [k \in 0..Len(places) |->
        IF k = 0 THEN t
        ELSE Splice(f[k - 1], EditOf(places, k).start, EditOf(places, k).end, EditOf(places, k).new)]

\* The new text has every placement where the ranges say, and the rest between.
LEMMA SplicedIs ==
  ASSUME NEW X, NEW t \in Seq(X), NEW places \in Seq(Edits(X)), InOrder(places, Len(t)),
         NEW D, Shifts(places, D)
  PROVE  Laid(X, t, places, D, 0, Spliced(t, places))
<1> DEFINE n == Len(places)
           e(k) == EditOf(places, k)
           S == Seq(X)
           Room(k, s) == e(k).start <= e(k).end /\ e(k).end <= Len(s)
           step == [pair \in (1..n) \X S |->
                     IF Room(pair[1], pair[2]) THEN Splice(pair[2], e(pair[1]).start, e(pair[1]).end, e(pair[1]).new)
                     ELSE <<>>]
           after == CHOOSE f : IsSplicing(f, t, places)
<1>1. n \in Nat /\ t \in S
  OBVIOUS
<1>2. ASSUME NEW k \in 1..n
      PROVE  /\ n + 1 - k \in 1..n /\ e(k) = places[n + 1 - k]
             /\ e(k).start \in Nat /\ e(k).end \in Nat /\ e(k).new \in Seq(X)
  <2>1. n + 1 - k \in 1..n /\ e(k) = places[n + 1 - k]
    BY <1>1 DEF EditOf
  <2>2. places[n + 1 - k] \in Edits(X)
    BY <2>1
  <2> QED BY <2>1, <2>2 DEF Edits
<1>3. \A k \in 1..n, s \in S : step[<<k, s>>] \in S
  <2> SUFFICES ASSUME NEW k \in 1..n, NEW s \in S PROVE step[<<k, s>>] \in S
    OBVIOUS
  <2>1. step[<<k, s>>] = IF Room(k, s) THEN Splice(s, e(k).start, e(k).end, e(k).new) ELSE <<>>
    OBVIOUS
  <2>2. CASE Room(k, s)
    <3> DEFINE u == Splice(s, e(k).start, e(k).end, e(k).new)
    <3>1. u = Splice(s, e(k).start, e(k).end, e(k).new) /\ s \in Seq(X)
      OBVIOUS
    <3>2. e(k).start \in Nat /\ e(k).end \in Nat /\ e(k).new \in Seq(X)
      BY <1>2
    <3>3. e(k).start <= e(k).end /\ e(k).end <= Len(s)
      BY <2>2
    <3>4. step[<<k, s>>] = u
      BY <2>1, <2>2
    <3> HIDE DEF u, e
    <3>5. IsSpliced(X, s, e(k).start, e(k).end, e(k).new, u)
      BY <3>1, <3>2, <3>3, SpliceIs
    <3> QED BY <3>4, <3>5 DEF IsSpliced
  <2>3. CASE ~ Room(k, s)
    BY <2>1, <2>3
  <2> QED BY <2>2, <2>3
<1>4. step \in [(1..n) \X S -> S]
  <2>1. step = [pair \in (1..n) \X S |-> step[pair]]
    OBVIOUS
  <2>2. \A pair \in (1..n) \X S : step[pair] \in S
    <3> HIDE DEF step
    <3> QED BY <1>3
  <2> HIDE DEF step
  <2> QED BY <2>1, <2>2
<1>5. \A k \in 1..n, s \in S : Room(k, s) => step[<<k, s>>] = Splice(s, e(k).start, e(k).end, e(k).new)
  OBVIOUS
<1> HIDE DEF step
\* A function that has the recursion's steps has all of its texts laid out.
<1>6. ASSUME NEW f, f[0] = t,
             \A k \in 1..n :
               Room(k, f[k - 1]) => f[k] = Splice(f[k - 1], e(k).start, e(k).end, e(k).new)
      PROVE  \A k \in 0..n : Laid(X, t, places, D, n - k, f[k])
  <2> DEFINE Good == {k \in Nat : k <= n => Laid(X, t, places, D, n - k, f[k])}
  <2>1. 0 \in Good
    <3>1. Len(t) = Len(t) + D[n] - D[n] /\ D[n] \in Int /\ Len(t) \in Nat
      BY <1>1 DEF Shifts
    <3>2. Bound(t, places, n) = Len(t) /\ (n + 1)..n = {}
      BY <1>1 DEF Bound
    <3>3. Laid(X, t, places, D, n, t)
      BY <3>1, <3>2 DEF Laid
    <3> QED BY <1>1, <1>6, <3>3
  <2>2. ASSUME NEW k \in Nat, k \in Good PROVE k + 1 \in Good
    <3> SUFFICES ASSUME k + 1 <= n PROVE Laid(X, t, places, D, n - (k + 1), f[k + 1])
      OBVIOUS
    <3> DEFINE m == n - k
    <3>1. /\ m \in 1..n /\ k + 1 \in 1..n /\ (k + 1) - 1 = k /\ n - (k + 1) = m - 1 /\ m \in 0..n /\ m # 0
          /\ n + 1 - (k + 1) = m
      BY <1>1
    <3>2. Laid(X, t, places, D, m, f[k])
      BY <1>1, <2>2
    <3>3. e(k + 1) = places[m]
      BY <1>2, <3>1
    <3> HIDE DEF m
    <3>4. places[m].start <= places[m].end /\ places[m].end <= Bound(t, places, m)
      BY <3>1, BoundIs
    <3>5. Room(k + 1, f[k])
      <4>1. Bound(t, places, m) <= Len(f[k]) /\ f[k] \in Seq(X)
        BY <3>2 DEF Laid
      <4>2. Bound(t, places, m) \in Nat /\ places[m].end \in Nat
        BY <3>1, BoundIs
      <4>3. Len(f[k]) \in Nat
        BY <4>1
      <4>4. places[m].end <= Len(f[k])
        BY <3>4, <4>1, <4>2, <4>3
      <4> HIDE DEF e
      <4> QED BY <3>3, <3>4, <4>4
    <3>6. f[k + 1] = Splice(f[k], e(k + 1).start, e(k + 1).end, e(k + 1).new)
      <4>1. Room(k + 1, f[(k + 1) - 1]) => f[k + 1] = Splice(f[(k + 1) - 1], e(k + 1).start, e(k + 1).end, e(k + 1).new)
        BY <1>6, <3>1
      <4> HIDE DEF Room, e
      <4> QED BY <3>1, <3>5, <4>1
    <3>7. f[k + 1] = Splice(f[k], places[m].start, places[m].end, places[m].new)
      <4> HIDE DEF e
      <4> QED BY <3>3, <3>6
    <3>8. Laid(X, t, places, D, m - 1, f[k + 1])
      <4>1. m \in 1..Len(places)
        BY <3>1
      <4> HIDE DEF n
      <4> QED BY <3>2, <3>7, <4>1, LaidStep
    <3> QED BY <3>1, <3>8
  <2>3. Nat \subseteq Good
    <3> HIDE DEF Good
    <3> QED BY <2>1, <2>2, Induction
  <2> QED BY <1>1, <2>3
<1>7. \E f : IsSplicing(f, t, places)
  <2>1. PICK f \in [0..n -> S] : IsFold(f, t, n, step)
    <3> HIDE DEF S, n
    <3> QED BY <1>1, <1>4, FoldExists, Zenon
  <2>2. f[0] = t /\ \A k \in 1..n : f[k] = step[<<k, f[k - 1]>>]
    BY <2>1 DEF IsFold
  <2>3. ASSUME NEW k \in 1..n
        PROVE  Room(k, f[k - 1]) => f[k] = Splice(f[k - 1], e(k).start, e(k).end, e(k).new)
    <3>1. k - 1 \in 0..n
      BY <1>1
    <3>2. f[k - 1] \in S
      BY <2>1, <3>1
    <3> HIDE DEF Room, e, S, n
    <3> QED BY <1>5, <2>2, <3>2
  <2>4. \A k \in 0..n : Laid(X, t, places, D, n - k, f[k])
    <3> HIDE DEF Room, e, S, n
    <3> QED BY <1>6, <2>2, <2>3
  <2>5. ASSUME NEW k \in 1..n PROVE f[k] = Splice(f[k - 1], e(k).start, e(k).end, e(k).new)
    <3> DEFINE m == n + 1 - k
    <3>1. k - 1 \in 0..n /\ m \in 1..n /\ m \in 0..n /\ m # 0 /\ n - (k - 1) = m /\ e(k) = places[m]
      BY <1>1, <1>2
    <3> HIDE DEF m
    <3>2. Laid(X, t, places, D, m, f[k - 1])
      BY <2>4, <3>1
    <3>3. /\ places[m].start <= places[m].end /\ places[m].end <= Bound(t, places, m)
          /\ Bound(t, places, m) \in Nat /\ places[m].end \in Nat
      BY <3>1, BoundIs
    <3>4. Bound(t, places, m) <= Len(f[k - 1]) /\ f[k - 1] \in Seq(X)
      BY <3>2 DEF Laid
    <3>5. Len(f[k - 1]) \in Nat
      BY <3>4
    <3>6. places[m].end <= Len(f[k - 1])
      BY <3>3, <3>4, <3>5
    <3>7. Room(k, f[k - 1])
      <4> HIDE DEF e
      <4> QED BY <3>1, <3>3, <3>6
    <3> HIDE DEF Room, e
    <3> QED BY <2>3, <3>7
  <2>6. ASSUME NEW k \in 0..n
        PROVE  f[k] = IF k = 0 THEN t ELSE Splice(f[k - 1], e(k).start, e(k).end, e(k).new)
    <3>1. CASE k = 0
      BY <2>2, <3>1
    <3>2. CASE k # 0
      <4>1. k \in 1..n
        BY <1>1, <3>2
      <4> HIDE DEF e
      <4> QED BY <2>5, <3>2, <4>1
    <3> QED BY <3>1, <3>2
  <2>7. f = [k \in 0..n |-> f[k]]
    BY <2>1
  <2>8. f = [k \in 0..n |-> IF k = 0 THEN t ELSE Splice(f[k - 1], e(k).start, e(k).end, e(k).new)]
    <3> HIDE DEF e, n
    <3> QED BY <2>6, <2>7
  <2> QED BY <2>8 DEF IsSplicing
<1>8. Spliced(t, places) = after[n]
  BY DEF Spliced, IsSplicing, EditOf
<1>9. IsSplicing(after, t, places)
  <2> HIDE DEF S, n
  <2> QED BY <1>7
<1> HIDE DEF after
<1>10. /\ after[0] = t
       /\ \A k \in 1..n : after[k] = Splice(after[k - 1], e(k).start, e(k).end, e(k).new)
  <2>1. after = [k \in 0..n |-> IF k = 0 THEN t ELSE Splice(after[k - 1], e(k).start, e(k).end, e(k).new)]
    BY <1>9 DEF IsSplicing
  <2>2. 0 \in 0..n /\ \A k \in 1..n : k \in 0..n /\ k # 0
    BY <1>1
  <2> HIDE DEF e, n
  <2> QED BY <2>1, <2>2
<1>11. \A k \in 0..n : Laid(X, t, places, D, n - k, after[k])
  <2>1. \A k \in 1..n :
          Room(k, after[k - 1]) => after[k] = Splice(after[k - 1], e(k).start, e(k).end, e(k).new)
    BY <1>10
  <2> HIDE DEF Room, e, n
  <2> QED BY <1>6, <1>10, <2>1
<1>12. n \in 0..n /\ n - n = 0
  BY <1>1
<1> HIDE DEF n
<1> QED BY <1>8, <1>11, <1>12

\* So the ranges hold the new lines, and what lies between them is the original.
LEMMA TextIsLaid ==
  ASSUME NEW X, NEW t \in Seq(X), NEW places \in Seq(Edits(X)), InOrder(places, Len(t)),
         NEW result, result.placed = Spliced(t, places), result.ranges = Ranges(places).ranges
  PROVE  RangesHold(result) /\ RestHolds(result, t, places)
<1> DEFINE n == Len(places)
           u == result.placed
           R == result.ranges
<1>1. PICK D : Shifts(places, D) /\ RangesAt(places, D, n, R)
  BY RangesAre
<1>2. Laid(X, t, places, D, 0, u)
  BY <1>1, SplicedIs
<1>3. n \in Nat /\ D[0] = 0 /\ D[n] \in Int /\ Len(t) \in Nat
  BY <1>1 DEF Shifts
<1>4. u \in Seq(X) /\ Len(u) \in Nat /\ Len(u) = Len(t) + D[n]
  <2>1. u \in Seq(X) /\ Len(u) = Len(t) + D[n] - D[0]
    BY <1>2 DEF Laid
  <2> QED BY <1>3, <2>1
<1>5. ASSUME NEW i \in 1..n
      PROVE  /\ places[i].start \in Nat /\ places[i].end \in Nat /\ places[i].new \in Seq(X)
             /\ Len(places[i].new) \in Nat /\ Bound(t, places, i) \in Nat
             /\ D[i - 1] \in Int /\ D[i] \in Int
             /\ D[i] = D[i - 1] + Len(places[i].new) - places[i].end + places[i].start
             /\ R[i].first = places[i].start + D[i - 1] + 1
             /\ R[i].last = places[i].start + D[i - 1] + Len(places[i].new)
             /\ R[i].new = places[i].new
             /\ places[i].start <= places[i].end /\ places[i].end <= Bound(t, places, i)
  <2>1. i \in 0..n /\ i # 0 /\ i - 1 \in 0..n
    BY <1>3
  <2>2. /\ places[i].start \in Nat /\ places[i].end \in Nat /\ places[i].new \in Seq(X)
        /\ Bound(t, places, i) \in Nat
        /\ places[i].start <= places[i].end /\ places[i].end <= Bound(t, places, i)
    BY <2>1, BoundIs
  <2>3. Len(places[i].new) \in Nat
    BY <2>2
  <2>4. /\ D[i - 1] \in Int /\ D[i] \in Int
        /\ D[i] = D[i - 1] + Len(places[i].new) - places[i].end + places[i].start
    BY <1>1, <2>1 DEF Shifts
  <2>5. R[i] = RangeAt(places, D, i)
    BY <1>1 DEF RangesAt
  <2>6. /\ R[i].first = places[i].start + D[i - 1] + 1
        /\ R[i].last = places[i].start + D[i - 1] + Len(places[i].new)
        /\ R[i].new = places[i].new
    <3> HIDE DEF R
    <3> QED BY <2>5 DEF RangeAt
  <2> QED BY <2>2, <2>3, <2>4, <2>6
<1>6. ASSUME NEW i \in 1..n
      PROVE  /\ Bound(t, places, 0) <= places[i].start + D[i - 1]
             /\ Bound(t, places, i) + D[i] <= Len(u)
             /\ \A j \in 1..Len(places[i].new) : u[places[i].start + D[i - 1] + j] = places[i].new[j]
             /\ \A l \in (places[i].end + 1)..Bound(t, places, i) : u[l + D[i]] = t[l]
  <2>1. i \in (0 + 1)..n
    BY <1>3
  <2>2. /\ Bound(t, places, 0) <= places[i].start + D[i - 1] - D[0]
        /\ Bound(t, places, i) + D[i] - D[0] <= Len(u)
        /\ \A j \in 1..Len(places[i].new) : u[places[i].start + D[i - 1] - D[0] + j] = places[i].new[j]
        /\ \A l \in (places[i].end + 1)..Bound(t, places, i) : u[l + D[i] - D[0]] = t[l]
    BY <1>2, <2>1 DEF Laid
  <2> DEFINE si == places[i].start
             ci == D[i - 1]
             di == D[i]
  <2>3. si \in Nat /\ ci \in Int /\ di \in Int /\ Bound(t, places, i) \in Nat
    BY <1>5
  <2>4. si + ci - D[0] = si + ci
    <3> HIDE DEF si, ci
    <3> QED BY <1>3, <2>3
  <2>5. \A l \in Int : l + di - D[0] = l + di
    <3> HIDE DEF di
    <3> QED BY <1>3, <2>3
  <2>6. ASSUME NEW l \in (places[i].end + 1)..Bound(t, places, i) PROVE l + di - D[0] = l + di
    <3>1. l \in Int
      OBVIOUS
    <3> HIDE DEF di
    <3> QED BY <2>5, <3>1, Zenon
  <2>7. Bound(t, places, i) + di - D[0] = Bound(t, places, i) + di
    <3>1. Bound(t, places, i) \in Int
      BY <2>3
    <3> HIDE DEF di
    <3> QED BY <2>5, <3>1, Zenon
  <2> HIDE DEF si, ci, di, u
  <2> USE DEF si, ci, di
  <2> QED BY <2>2, <2>4, <2>6, <2>7
<1> HIDE DEF u, R
<1>7. RangesHold(result)
  <2>1. DOMAIN R = 1..n
    BY <1>1 DEF RangesAt
  <2>2. ASSUME NEW i \in 1..n PROVE SubSeq(u, R[i].first, R[i].last) = R[i].new
    <3> DEFINE a == places[i].start + D[i - 1]
               new == places[i].new
               w == Len(new)
               part == SubSeq(u, a + 1, a + w)
    <3>1. R[i].first = a + 1 /\ R[i].last = a + w /\ R[i].new = new
      BY <1>5
    <3>2. new \in Seq(X) /\ w \in Nat /\ a \in Int
      BY <1>5
    <3>3. 0 <= a /\ a + w <= Len(u)
      <4>1. Bound(t, places, 0) <= a /\ Bound(t, places, i) + D[i] <= Len(u)
        BY <1>6
      <4>2. Bound(t, places, 0) \in Nat
        BY <1>3, BoundIs
      <4>3. a + w = places[i].end + D[i] /\ places[i].end <= Bound(t, places, i)
        <5> DEFINE si == places[i].start
                   ci == D[i - 1]
                   di == D[i]
                   ei == places[i].end
        <5>1. /\ si \in Nat /\ ci \in Int /\ di \in Int /\ ei \in Nat
              /\ di = ci + w - ei + si /\ ei <= Bound(t, places, i)
          BY <1>5
        <5>2. si + ci + w = ei + di
          <6> HIDE DEF si, ci, di, ei, w
          <6> QED BY <3>2, <5>1
        <5> HIDE DEF w
        <5> QED BY <5>1, <5>2
      <4>4. D[i] \in Int /\ Bound(t, places, i) \in Nat /\ places[i].end \in Nat
        BY <1>5
      <4>5. a + w <= Len(u)
        <5> DEFINE b == Bound(t, places, i)
                   c == D[i]
                   e == places[i].end
                   lu == Len(u)
                   x == a + w
        <5>1. b + c <= lu /\ x = e + c /\ e <= b /\ b \in Nat /\ c \in Int /\ e \in Nat /\ lu \in Nat
          BY <1>4, <4>1, <4>3, <4>4
        <5> SUFFICES x <= lu
          OBVIOUS
        <5> HIDE DEF b, c, e, lu, x
        <5> QED BY <5>1
      <4>6. 0 <= a
        <5> HIDE DEF a
        <5> QED BY <3>2, <4>1, <4>2
      <4> QED BY <4>5, <4>6
    <3>4. \A j \in 1..w : u[a + j] = new[j]
      BY <1>6
    <3> HIDE DEF a, new, w
    <3>5. Len(part) = w /\ part \in Seq(X) /\ \A j \in 1..w : part[j] = u[a + j]
      <4>1. a \in Nat /\ w \in Nat /\ a + w <= Len(u) /\ u \in Seq(X)
        BY <1>4, <3>2, <3>3
      <4> QED BY <4>1
    <3> HIDE DEF part
    <3>6. \A j \in 1..w : part[j] = new[j]
      BY <3>4, <3>5
    <3>7. part = new
      <4>1. Len(new) = w
        BY DEF w
      <4> QED BY <3>2, <3>5, <3>6, <4>1, SeqEqual
    <3> QED BY <3>1, <3>7 DEF part
  <2> QED BY <2>1, <2>2 DEF RangesHold, u, R
<1>8. RestHolds(result, t, places)
  <2> SUFFICES ASSUME NEW i \in 0..n
               PROVE  LET from == IF i = 0 THEN 0 ELSE places[i].end
                          to == IF i = n THEN Len(t) ELSE places[i + 1].start
                          last == IF i = 0 THEN 0 ELSE R[i].last
                          next == IF i = n THEN Len(u) + 1 ELSE R[i + 1].first
                      IN /\ next = last + to - from + 1
                         /\ SubSeq(u, last + 1, next - 1) = SubSeq(t, from + 1, to)
    BY DEF RestHolds, u, R
  <2> DEFINE from == IF i = 0 THEN 0 ELSE places[i].end
             to == IF i = n THEN Len(t) ELSE places[i + 1].start
             last == IF i = 0 THEN 0 ELSE R[i].last
             next == IF i = n THEN Len(u) + 1 ELSE R[i + 1].first
             d == D[i]
             lt == Len(t)
             lu == Len(u)
  <2>1. to = Bound(t, places, i) /\ to \in Nat /\ to <= lt /\ d \in Int /\ lt \in Nat /\ lu \in Nat
    <3>1. to = Bound(t, places, i)
      BY DEF Bound
    <3>2. Bound(t, places, i) \in Nat /\ Bound(t, places, i) <= Len(t)
      BY BoundIs
    <3>3. d \in Int
      BY <1>1 DEF Shifts
    <3> HIDE DEF to, d
    <3> QED BY <1>3, <1>4, <3>1, <3>2, <3>3
  <2>2. /\ from \in Nat /\ from <= to /\ last = from + d /\ 0 <= last
        /\ \A l \in (from + 1)..to : u[l + d] = t[l]
    <3>1. CASE i = 0
      <4>1. from = 0 /\ last = 0 /\ d = 0
        BY <1>3, <3>1
      <4>2. \A l \in 1..to : u[l] = t[l]
        <5>1. \A l \in 1..Bound(t, places, 0) : u[l] = t[l]
          BY <1>2 DEF Laid
        <5> HIDE DEF to
        <5> QED BY <2>1, <3>1, <5>1
      <4> HIDE DEF from, last, d, to
      <4> QED BY <2>1, <4>1, <4>2
    <3>2. CASE i # 0
      <4> DEFINE si == places[i].start
                 ei == places[i].end
                 ci == D[i - 1]
                 wi == Len(places[i].new)
      <4>1. i \in 1..n
        BY <1>3, <3>2
      <4>2. /\ si \in Nat /\ ei \in Nat /\ wi \in Nat /\ ci \in Int /\ d = ci + wi - ei + si
            /\ R[i].last = si + ci + wi /\ si <= ei /\ ei <= Bound(t, places, i)
        BY <1>5, <4>1
      <4>3. Bound(t, places, 0) <= si + ci /\ Bound(t, places, 0) \in Nat
        <5>1. Bound(t, places, 0) <= si + ci
          BY <1>6, <4>1
        <5> QED BY <1>3, <5>1, BoundIs
      <4>4. \A l \in (ei + 1)..Bound(t, places, i) : u[l + d] = t[l]
        BY <1>6, <4>1
      <4>5. from = ei /\ last = R[i].last
        BY <3>2
      <4> HIDE DEF from, last, d, to, si, ei, ci, wi
      <4>6. last = si + ci + wi
        BY <4>2, <4>5
      <4>7. last = from + d /\ 0 <= last
        <5> DEFINE z == Bound(t, places, 0)
        <5>1. z <= si + ci /\ z \in Nat
          BY <4>3
        <5>2. /\ si \in Nat /\ ei \in Nat /\ wi \in Nat /\ ci \in Int /\ d = ci + wi - ei + si /\ from = ei
          BY <4>2, <4>5
        <5> HIDE DEF z
        <5> QED BY <2>1, <4>6, <5>1, <5>2
      <4> QED BY <2>1, <4>2, <4>4, <4>5, <4>7
    <3> QED BY <3>1, <3>2
  <2>3. next = to + d + 1 /\ to + d <= lu
    <3>1. CASE i = n
      <4>1. next = lu + 1 /\ to = lt /\ lu = lt + d
        BY <1>4, <3>1
      <4> HIDE DEF next, to, lt, lu, d
      <4> QED BY <2>1, <4>1
    <3>2. CASE i # n
      <4> DEFINE j == i + 1
      <4>1. j \in 1..n /\ j - 1 = i
        BY <1>3, <3>2
      <4>2. R[j].first = places[j].start + D[j - 1] + 1 /\ places[j].start <= places[j].end
            /\ places[j].end <= Bound(t, places, j) /\ places[j].end \in Nat
            /\ D[j] = D[j - 1] + Len(places[j].new) - places[j].end + places[j].start
            /\ Len(places[j].new) \in Nat /\ D[j] \in Int /\ Bound(t, places, j) \in Nat
        BY <1>5, <4>1
      <4>3. Bound(t, places, j) + D[j] <= Len(u)
        BY <1>6, <4>1
      <4>4. next = to + d + 1
        <5>1. next = R[j].first /\ to = places[j].start /\ d = D[j - 1]
          BY <3>2, <4>1
        <5> HIDE DEF next, to, d, j
        <5> QED BY <4>2, <5>1
      <4>5. to + d <= lu
        <5> DEFINE b == Bound(t, places, j)
                   e == places[j].end
                   w == Len(places[j].new)
                   dj == D[j]
        <5>1. to = places[j].start /\ d = D[j - 1]
          BY <3>2, <4>1
        <5>2. /\ b \in Nat /\ e \in Nat /\ w \in Nat /\ dj \in Int /\ e <= b /\ dj = d + w - e + to
              /\ b + dj <= lu
          <6> HIDE DEF to, d, j
          <6> QED BY <4>2, <4>3, <5>1
        <5> HIDE DEF to, d, lu, b, e, w, dj
        <5> QED BY <2>1, <5>2
      <4> QED BY <4>4, <4>5
    <3> QED BY <3>1, <3>2
  <2> SUFFICES next = last + to - from + 1 /\ SubSeq(u, last + 1, next - 1) = SubSeq(t, from + 1, to)
    OBVIOUS
  <2>4. t \in Seq(X)
    OBVIOUS
  <2> HIDE DEF from, to, last, next, d
  <2>5. next = last + to - from + 1 /\ next - 1 = to + d /\ last \in Nat
    <3>1. /\ from \in Nat /\ to \in Nat /\ d \in Int /\ last = from + d /\ next = to + d + 1 /\ 0 <= last
      BY <2>1, <2>2, <2>3
    <3> QED BY <3>1
  <2> DEFINE p == SubSeq(u, last + 1, next - 1)
             q == SubSeq(t, from + 1, to)
             w == to - from
  <2>6. w \in Nat /\ w = to - from /\ next - 1 = last + w /\ to = from + w
    <3>1. from \in Nat /\ to \in Nat /\ d \in Int /\ from <= to /\ last = from + d /\ next - 1 = to + d
      BY <2>1, <2>2, <2>5
    <3> QED BY <3>1
  <2> HIDE DEF w
  <2>7. last + w <= lu /\ from + w <= lt
    <3>1. next - 1 <= lu /\ to <= lt
      BY <2>1, <2>3, <2>5
    <3> QED BY <2>6, <3>1
  <2>8. Len(p) = w /\ p \in Seq(X) /\ \A j \in 1..w : p[j] = u[last + j]
    <3>1. p = SubSeq(u, last + 1, last + w)
      BY <2>6
    <3> HIDE DEF p
    <3>2. u \in Seq(X) /\ last \in Nat /\ w \in Nat /\ last + w <= Len(u)
      BY <1>4, <2>5, <2>6, <2>7
    <3> QED BY <3>1, <3>2
  <2>9. Len(q) = w /\ q \in Seq(X) /\ \A j \in 1..w : q[j] = t[from + j]
    <3>1. q = SubSeq(t, from + 1, from + w)
      BY <2>6
    <3>2. from \in Nat
      BY <2>2
    <3> HIDE DEF q
    <3> QED BY <2>4, <2>6, <2>7, <3>1, <3>2
  <2> HIDE DEF p, q, lu, lt
  <2>10. ASSUME NEW j \in 1..w PROVE p[j] = q[j]
    <3>1. from \in Nat /\ to \in Nat /\ d \in Int /\ last = from + d /\ to = from + w /\ j \in Int
      BY <2>1, <2>2, <2>6
    <3>2. from + j \in (from + 1)..to /\ last + j = (from + j) + d
      BY <2>6, <3>1
    <3>3. u[(from + j) + d] = t[from + j]
      BY <2>2, <3>2
    <3> QED BY <2>8, <2>9, <3>2, <3>3
  <2>11. p = q
    BY <2>6, <2>8, <2>9, <2>10, SeqEqual
  <2> QED BY <2>5, <2>11 DEF p, q
<1> QED BY <1>7, <1>8

\* Without placements the text is as it was.
LEMMA NothingSpliced ==
  ASSUME NEW t, NEW places, places = <<>>
  PROVE  Spliced(t, places) = t
<1> DEFINE after == CHOOSE f : IsSplicing(f, t, places)
           one == [k \in {0} |-> t]
<1>1. Len(places) = 0 /\ 0..0 = {0}
  OBVIOUS
<1>2. Spliced(t, places) = after[0]
  BY <1>1 DEF Spliced, IsSplicing, EditOf
<1>3. IsSplicing(one, t, places)
  <2>1. one = [k \in 0..Len(places) |->
                IF k = 0 THEN t
                ELSE Splice(one[k - 1], EditOf(places, k).start, EditOf(places, k).end, EditOf(places, k).new)]
    BY <1>1
  <2> HIDE DEF one
  <2> QED BY <2>1 DEF IsSplicing
<1>4. IsSplicing(after, t, places)
  <2> HIDE DEF one
  <2> QED BY <1>3
<1> HIDE DEF after
<1>5. after[0] = t
  <2>1. after = [k \in 0..Len(places) |->
                  IF k = 0 THEN t
                  ELSE Splice(after[k - 1], EditOf(places, k).start, EditOf(places, k).end, EditOf(places, k).new)]
    BY <1>4 DEF IsSplicing
  <2>2. 0 \in 0..Len(places)
    BY <1>1
  <2> QED BY <2>1, <2>2
<1> QED BY <1>2, <1>5

----------------------------------------------------------------------------
(* The edits of one call, in order.                                        *)

\* How many of some edits come before one.
Rank(edits, some, i) == Cardinality({k \in some : EditBefore(edits, k, i)})
At(edits, some) == [r \in 1..Cardinality(some) |-> CHOOSE i \in some : Rank(edits, some, i) = r - 1]

\* Each of the edits has one place in the order, and the order is that of EditBefore.
LEMMA OrderedIs ==
  ASSUME NEW X, NEW edits \in Seq(Edits(X)), NEW some \in SUBSET (DOMAIN edits)
  PROVE  /\ Cardinality(some) \in Nat
         /\ At(edits, some) \in [1..Cardinality(some) -> some]
         /\ \A i \in some : \E r \in 1..Cardinality(some) : At(edits, some)[r] = i
         /\ \A r, q \in 1..Cardinality(some) :
              r < q => EditBefore(edits, At(edits, some)[r], At(edits, some)[q])
         /\ Ordered(edits, some) = [r \in 1..Cardinality(some) |-> edits[At(edits, some)[r]]]
<1> DEFINE n == Cardinality(some)
           Below(i) == {k \in some : EditBefore(edits, k, i)}
           rank == [i \in some |-> Cardinality(Below(i)) + 1]
           at == At(edits, some)
<1>1. IsFiniteSet(some) /\ n \in Nat
  <2>1. DOMAIN edits = 1..Len(edits) /\ 1 \in Int /\ Len(edits) \in Int
    OBVIOUS
  <2>2. IsFiniteSet(1..Len(edits))
    BY <2>1, FS_Interval
  <2> QED BY <2>1, <2>2, FS_Subset, FS_CardinalityType
<1>2. \A i \in some : /\ i \in Nat /\ edits[i].start \in Nat /\ edits[i].end \in Nat
  <2>1. \A i \in some : i \in Nat /\ edits[i] \in Edits(X)
    OBVIOUS
  <2> QED BY <2>1 DEF Edits
<1>3. \A i, j \in some : i # j => EditBefore(edits, i, j) \/ EditBefore(edits, j, i)
  BY <1>2 DEF EditBefore
<1>4. \A i \in some : ~ EditBefore(edits, i, i)
  BY <1>2 DEF EditBefore
<1>5. \A i, j, k \in some : EditBefore(edits, k, i) /\ EditBefore(edits, i, j) => EditBefore(edits, k, j)
  BY <1>2 DEF EditBefore
<1>6. ASSUME NEW i \in some
      PROVE  IsFiniteSet(Below(i)) /\ Cardinality(Below(i)) \in Nat /\ Cardinality(Below(i)) < n
  <2>1. Below(i) \in SUBSET some /\ Below(i) # some
    BY <1>4
  <2> HIDE DEF Below
  <2>2. /\ IsFiniteSet(Below(i)) /\ Cardinality(Below(i)) <= n
        /\ n = Cardinality(Below(i)) => some = Below(i)
    BY <1>1, <2>1, FS_Subset
  <2>3. Cardinality(Below(i)) \in Nat
    BY <2>2, FS_CardinalityType
  <2> QED BY <1>1, <2>1, <2>2, <2>3
<1>7. ASSUME NEW i \in some, NEW j \in some, EditBefore(edits, i, j)
      PROVE  Cardinality(Below(i)) < Cardinality(Below(j))
  <2>1. Below(i) \in SUBSET Below(j) /\ i \in Below(j) /\ i \notin Below(i)
    BY <1>4, <1>5, <1>7
  <2> HIDE DEF Below
  <2>2. /\ Cardinality(Below(i)) <= Cardinality(Below(j))
        /\ Cardinality(Below(j)) = Cardinality(Below(i)) => Below(j) = Below(i)
    BY <1>6, <2>1, FS_Subset
  <2> QED BY <1>6, <2>1, <2>2
<1> HIDE DEF Below
<1>8. rank \in [some -> 1..n] /\ \A i \in some : rank[i] = Cardinality(Below(i)) + 1
  <2>1. \A i \in some : Cardinality(Below(i)) + 1 \in 1..n
    BY <1>1, <1>6
  <2> HIDE DEF n
  <2> QED BY <2>1
<1> HIDE DEF rank, n
<1>9. ASSUME NEW i \in some, NEW j \in some, i # j PROVE rank[i] # rank[j]
  <2>1. rank[i] = Cardinality(Below(i)) + 1 /\ rank[j] = Cardinality(Below(j)) + 1
    BY <1>8
  <2>2. Cardinality(Below(i)) # Cardinality(Below(j))
    <3>1. Cardinality(Below(i)) \in Nat /\ Cardinality(Below(j)) \in Nat
      BY <1>6
    <3>2. CASE EditBefore(edits, i, j)
      BY <1>7, <3>1, <3>2
    <3>3. CASE EditBefore(edits, j, i)
      BY <1>7, <3>1, <3>3
    <3> QED BY <1>3, <1>9, <3>2, <3>3
  <2> QED BY <1>6, <2>1, <2>2
<1>10. rank \in Injection(some, 1..n)
  BY <1>8, <1>9 DEF Injection, IsInjective
<1>11. rank \in Surjection(some, 1..n)
  <2>1. IsFiniteSet(1..n) /\ Cardinality(1..n) = n
    <3>1. 1 \in Int /\ n \in Int
      BY <1>1
    <3>2. IsFiniteSet(1..n) /\ Cardinality(1..n) = IF 1 > n THEN 0 ELSE n - 1 + 1
      BY <3>1, FS_Interval
    <3> QED BY <1>1, <3>2
  <2>2. Cardinality(some) = Cardinality(1..n)
    BY <2>1 DEF n
  <2> QED BY <1>10, <2>1, <2>2, FS_Injection
<1>12. \A r \in 1..n : \E i \in some : rank[i] = r
  BY <1>11 DEF Surjection
<1>13. \A i \in some : Rank(edits, some, i) = Cardinality(Below(i))
  BY DEF Rank, Below
<1>14. ASSUME NEW r \in 1..n PROVE at[r] \in some /\ rank[at[r]] = r
  <2>1. PICK i \in some : rank[i] = r
    BY <1>12
  <2>2. Rank(edits, some, i) = r - 1
    BY <1>6, <1>8, <1>13, <2>1
  <2>3. at[r] = CHOOSE j \in some : Rank(edits, some, j) = r - 1
    BY DEF At, n
  <2>4. at[r] \in some /\ Rank(edits, some, at[r]) = r - 1
    BY <2>2, <2>3
  <2>5. rank[at[r]] = Cardinality(Below(at[r])) + 1 /\ Cardinality(Below(at[r])) = r - 1
    BY <1>8, <1>13, <2>4
  <2> QED BY <2>4, <2>5
<1>15. at \in [1..n -> some]
  <2>1. at = [r \in 1..n |-> at[r]]
    BY DEF At, n
  <2> HIDE DEF at
  <2> QED BY <1>14, <2>1
<1>16. ASSUME NEW i \in some PROVE \E r \in 1..n : at[r] = i
  <2>1. rank[i] \in 1..n
    BY <1>8
  <2>2. at[rank[i]] \in some /\ rank[at[rank[i]]] = rank[i]
    BY <1>14, <2>1
  <2>3. at[rank[i]] = i
    BY <1>9, <2>2
  <2> QED BY <2>1, <2>3
<1>17. ASSUME NEW r \in 1..n, NEW q \in 1..n, r < q PROVE EditBefore(edits, at[r], at[q])
  <2>1. at[r] \in some /\ at[q] \in some /\ rank[at[r]] = r /\ rank[at[q]] = q
    BY <1>14
  <2> HIDE DEF at
  <2>2. CASE EditBefore(edits, at[q], at[r])
    <3>1. Cardinality(Below(at[q])) < Cardinality(Below(at[r]))
      BY <1>7, <2>1, <2>2
    <3>2. rank[at[r]] = Cardinality(Below(at[r])) + 1 /\ rank[at[q]] = Cardinality(Below(at[q])) + 1
      BY <1>8, <2>1
    <3>3. Cardinality(Below(at[q])) \in Nat /\ Cardinality(Below(at[r])) \in Nat
      BY <1>6, <2>1
    <3> QED BY <1>17, <2>1, <3>1, <3>2, <3>3
  <2>3. at[r] # at[q]
    BY <1>17, <2>1
  <2> QED BY <1>3, <2>1, <2>2, <2>3
<1>18. Ordered(edits, some) = [r \in 1..n |-> edits[at[r]]]
  BY DEF Ordered, At, Rank, n
<1> QED BY <1>1, <1>15, <1>16, <1>17, <1>18 DEF n

\* Edits that are not rejected follow one another in the order they sort to.
LEMMA ApartInOrder ==
  ASSUME NEW X, NEW t, NEW edits \in Seq(Edits(X)), ~ Rejected(t, edits),
         NEW i \in DOMAIN edits, NEW j \in DOMAIN edits, EditBefore(edits, i, j)
  PROVE  edits[i].end <= edits[j].start
<1> DEFINE all == DOMAIN edits
           n == Cardinality(all)
           at == At(edits, all)
           es == Ordered(edits, all)
<1>1. /\ n \in Nat /\ at \in [1..n -> all]
      /\ \A k \in all : \E r \in 1..n : at[r] = k
      /\ \A r, q \in 1..n : r < q => EditBefore(edits, at[r], at[q])
      /\ es = [r \in 1..n |-> edits[at[r]]]
  <2>1. all \in SUBSET (DOMAIN edits)
    OBVIOUS
  <2> HIDE DEF all
  <2> QED BY <2>1, OrderedIs
<1>2. \A k \in all : /\ k \in Nat /\ edits[k].start \in Nat /\ edits[k].end \in Nat
  <2>1. \A k \in all : k \in Nat /\ edits[k] \in Edits(X)
    OBVIOUS
  <2> QED BY <2>1 DEF Edits
<1>3. Len(es) = n
  <2> HIDE DEF n, at, es
  <2> QED BY <1>1
<1>4. \A r \in 1..(n - 1) : ~ Overlapping(es[r], es[r + 1])
  <2> HIDE DEF n
  <2> QED BY <1>3 DEF Rejected
<1> HIDE DEF all, n, at, es
<1>5. PICK r \in 1..n, q \in 1..n : at[r] = i /\ at[q] = j
  BY <1>1 DEF all
<1>6. i \in all /\ j \in all
  BY DEF all
<1>7. r < q
  <2>1. CASE r = q
    <3>1. i = j
      BY <1>5, <2>1
    <3> QED BY <1>2, <1>6, <3>1 DEF EditBefore
  <2>2. CASE q < r
    <3>1. EditBefore(edits, j, i)
      BY <1>1, <1>5, <2>2
    <3> QED BY <1>2, <1>6, <3>1 DEF EditBefore
  <2> QED BY <1>1, <2>1, <2>2
<1>8. r \in 1..(n - 1) /\ r + 1 \in 1..n
  BY <1>1, <1>7
<1>9. es[r] = edits[i] /\ es[r + 1] = edits[at[r + 1]] /\ at[r + 1] \in all
  BY <1>1, <1>5, <1>8
<1>10. edits[i].end <= edits[at[r + 1]].start
  <2>1. ~ (edits[at[r + 1]].start < edits[i].end)
    BY <1>4, <1>8, <1>9 DEF Overlapping
  <2>2. edits[at[r + 1]].start \in Nat /\ edits[i].end \in Nat
    BY <1>2, <1>6, <1>9
  <2> QED BY <2>1, <2>2
<1>11. edits[at[r + 1]].start <= edits[j].start
  <2>1. CASE r + 1 = q
    BY <1>2, <1>5, <1>6, <2>1
  <2>2. CASE r + 1 < q
    <3>1. EditBefore(edits, at[r + 1], j)
      BY <1>1, <1>5, <1>8, <2>2
    <3> QED BY <1>2, <1>6, <1>9, <3>1 DEF EditBefore
  <2> QED BY <1>1, <1>7, <2>1, <2>2
<1>12. edits[at[r + 1]].start \in Nat /\ edits[i].end \in Nat /\ edits[j].start \in Nat
  BY <1>2, <1>6, <1>9
<1> QED BY <1>10, <1>11, <1>12

\* A text into which lines of some kind are spliced is of them.
LEMMA SplicedAre ==
  ASSUME NEW X, NEW t \in Seq(X), NEW places \in Seq(Edits(X)), InOrder(places, Len(t))
  PROVE  Spliced(t, places) \in Seq(X)
<1>1. PICK D : Shifts(places, D)
  BY RangesAre
<1>2. Laid(X, t, places, D, 0, Spliced(t, places))
  BY <1>1, SplicedIs
<1> QED BY <1>2 DEF Laid

\* A function on the numbers up to n is a sequence.
LEMMA NumberedIsSeq ==
  ASSUME NEW X, NEW n \in Nat, NEW f \in [1..n -> X]
  PROVE  f \in Seq(X) /\ Len(f) = n /\ DOMAIN f = 1..n
OBVIOUS

FileTexts == {t \in [bom : BOOLEAN, lines : Seq(RawLine)] : RawText(t)}
EndedLine == {l \in RawLine : l.lf}
\* The files whose placed lines all have an end: all but those whose last has none.
AllEnded(t) == Closed(t) \/ RawLines(t) = <<>>

LEMMA RawLinesAre ==
  ASSUME NEW t \in FileTexts
  PROVE  /\ RawLines(t) \in Seq(RawLine) /\ NewEnd(t) \in {0, 1}
         /\ AllEnded(t) => RawLines(t) \in Seq(EndedLine)
<1>1. t.lines \in Seq(RawLine) /\ RawText(t) /\ Unended \in RawLine
  <2>1. Unended \in RawLine
    BY EditAssumption DEF Unended, Raw, RawLine
  <2> QED BY <2>1 DEF FileTexts
<1>2. RawLines(t) \in Seq(RawLine) /\ NewEnd(t) \in {0, 1}
  <2>1. <<Unended>> \in Seq(RawLine)
    BY <1>1
  <2> QED BY <1>1, <2>1 DEF RawLines, NewEnd
<1>3. ASSUME AllEnded(t) PROVE RawLines(t) \in Seq(EndedLine)
  <2>1. CASE Closed(t)
    <3>1. RawLines(t) = t.lines
      BY <2>1 DEF Closed, RawLines
    <3>2. \A i \in 1..Len(t.lines) : t.lines[i] \in EndedLine
      BY <1>1, <2>1 DEF Closed, RawText, EndedLine
    <3>3. t.lines \in [1..Len(t.lines) -> EndedLine] /\ Len(t.lines) \in Nat
      BY <1>1, <3>2
    <3> QED BY <3>1, <3>3
  <2>2. CASE RawLines(t) = <<>>
    BY <2>2
  <2> QED BY <1>3, <2>1, <2>2 DEF AllEnded
<1> QED BY <1>2, <1>3

\* Every line finished has the text it had, and ends but for the last are kept.
WellFinished(t, placed, i, l) ==
  /\ l.word = placed[i].word
  /\ i < Len(placed) => l.lf /\ (placed[i].lf => l = placed[i])
  /\ Closed(t) => l.lf
  /\ i = Len(placed) /\ ~ AllEnded(t) => ~ l.lf \/ l = Raw(NoWord, NewEnd(t), TRUE)
  /\ l = Unended => i = Len(placed) /\ ~ AllEnded(t) /\ placed[i] # Raw(NoWord, NewEnd(t), TRUE)

LEMMA FinishedIs ==
  ASSUME NEW t \in FileTexts, NEW placed \in Seq(RawLine), AllEnded(t) => placed \in Seq(EndedLine),
         NEW i \in 1..Len(placed)
  PROVE  WellFinished(t, placed, i, Finished(t, placed)[i])
<1> DEFINE blank == Raw(NoWord, NewEnd(t), TRUE)
           n == Len(placed)
           p == placed[i]
           c == Contents(placed)[i]
           l == Finished(t, placed)[i]
           all == AllEnded(t)
<1>1. p \in RawLine /\ (all => p.lf) /\ i \in DOMAIN placed /\ i \in Nat /\ n \in Nat /\ i <= n
  BY DEF EndedLine
<1>2. all <=> ~ (~ Closed(t) /\ RawLines(t) # <<>>)
  BY DEF AllEnded
<1>3. l = IF i < n THEN IF p.lf THEN p ELSE Raw(p.word, p.cr + NewEnd(t), TRUE)
          ELSE IF ~ all /\ p # blank THEN c ELSE p
  BY <1>1, <1>2 DEF Finished
<1>4. c.word = p.word /\ (p.lf \/ c = p) /\ (p.lf => ~ c.lf)
  BY <1>1 DEF Contents, Raw
<1>5. blank.lf /\ ~ Unended.lf /\ p.lf \in BOOLEAN
  BY <1>1 DEF Unended, Raw, RawLine
<1> HIDE DEF blank, n, p, c, l, all
<1>6. CASE i < n
  <2>1. l.word = p.word /\ l.lf /\ (p.lf => l = p)
    BY <1>3, <1>6 DEF Raw
  <2>2. l # Unended /\ i # n
    BY <1>1, <1>5, <1>6, <2>1
  <2> QED BY <1>6, <2>1, <2>2 DEF WellFinished, blank, n, p, l, all
<1>7. CASE ~ (i < n) /\ ~ all /\ p # blank
  <2>1. l = c /\ ~ l.lf /\ l.word = p.word /\ i = n /\ ~ Closed(t)
    BY <1>1, <1>2, <1>3, <1>4, <1>5, <1>7
  <2> QED BY <1>7, <2>1 DEF WellFinished, blank, n, p, l, all
<1>8. CASE ~ (i < n) /\ (all \/ p = blank)
  <2>1. l = p /\ i = n
    BY <1>1, <1>3, <1>8
  <2>2. l.lf /\ l # Unended /\ (~ all => l = blank)
    BY <1>1, <1>5, <1>8, <2>1
  <2> QED BY <1>8, <2>1, <2>2 DEF WellFinished, blank, n, p, l, all
<1> QED BY <1>6, <1>7, <1>8

\* A file is made of the lines that are given, but for an empty one at its end.
IsFileOf(bom, f, file0) ==
  /\ file0.bom = (bom /\ Len(f) > 0)
  /\ Len(file0.lines) = IF Len(f) > 0 /\ f[Len(f)] = Unended THEN Len(f) - 1 ELSE Len(f)
  /\ \A i \in DOMAIN file0.lines : i \in 1..Len(f) /\ i \in 1..Len(file0.lines) /\ file0.lines[i] = f[i]

LEMMA FileOfIs ==
  ASSUME NEW X, NEW f \in Seq(X), NEW bom \in BOOLEAN
  PROVE  IsFileOf(bom, f, FileOf(bom, f))
<1> DEFINE n == Len(f)
           r == FileOf(bom, f)
<1>1. n \in Nat /\ DOMAIN f = 1..n
  OBVIOUS
<1>2. CASE f = <<>>
  <2>1. r.bom = FALSE /\ r.lines = <<>> /\ Len(f) = 0 /\ DOMAIN r.lines = {} /\ Len(r.lines) = 0
    BY <1>2 DEF FileOf
  <2>2. (bom /\ Len(f) > 0) = FALSE /\ ~ (Len(f) > 0)
    BY <2>1
  <2> HIDE DEF r
  <2>3. /\ r.bom = (bom /\ Len(f) > 0)
        /\ Len(r.lines) = IF Len(f) > 0 /\ f[Len(f)] = Unended THEN Len(f) - 1 ELSE Len(f)
        /\ \A i \in DOMAIN r.lines : FALSE
    BY <2>1, <2>2, Zenon
  <2> QED BY <2>3 DEF IsFileOf, r
<1>3. CASE f # <<>> /\ f[n] # Unended
  <2>1. r.bom = bom /\ r.lines = f /\ n > 0
    BY <1>1, <1>3 DEF FileOf
  <2> HIDE DEF r
  <2> QED BY <1>1, <1>3, <2>1 DEF IsFileOf, r
<1>4. CASE f # <<>> /\ f[n] = Unended
  <2> DEFINE g == SubSeq(f, 1, n - 1)
  <2>1. r.bom = bom /\ r.lines = g /\ n > 0
    BY <1>1, <1>4 DEF FileOf, Slice
  <2>2. Len(g) = n - 1 /\ DOMAIN g = 1..(n - 1) /\ \A i \in 1..(n - 1) : i \in 1..n /\ g[i] = f[i]
    BY <1>1, <2>1
  <2> HIDE DEF r, g
  <2> QED BY <1>4, <2>1, <2>2 DEF IsFileOf, r
<1> QED BY <1>2, <1>3, <1>4

\* The file placed lines make.
LEMMA FileIsMade ==
  ASSUME NEW t \in FileTexts, NEW placed \in Seq(RawLine), AllEnded(t) => placed \in Seq(EndedLine),
         NEW result, result.placed = placed, result.text = FileOf(t.bom, Finished(t, placed))
  PROVE  EditedFile(result, t)
<1> DEFINE n == Len(placed)
           f == Finished(t, placed)
           ls == result.text.lines
           blank == Raw(NoWord, NewEnd(t), TRUE)
<1>1. n \in Nat /\ f \in Seq({f[i] : i \in 1..n}) /\ Len(f) = n
  <2>1. f = [i \in 1..n |-> f[i]]
    BY DEF Finished
  <2> HIDE DEF f
  <2> QED BY <2>1
<1>2. t.bom \in BOOLEAN
  BY DEF FileTexts
<1> HIDE DEF f
<1>3. IsFileOf(t.bom, f, result.text)
  BY <1>1, <1>2, FileOfIs DEF f
<1>4. \A i \in 1..n : WellFinished(t, placed, i, f[i])
  BY FinishedIs DEF f
<1> HIDE DEF n, ls
<1>5. /\ result.text.bom = (t.bom /\ n > 0)
      /\ Len(ls) = IF n > 0 /\ f[n] = Unended THEN n - 1 ELSE n
      /\ \A i \in DOMAIN ls : i \in 1..n /\ ls[i] = f[i]
  BY <1>1, <1>3 DEF IsFileOf, ls
<1>6. Len(ls) # n => /\ Len(ls) = n - 1 /\ ~ Closed(t)
                     /\ placed[n].word = NoWord /\ placed[n] # blank
  <2> SUFFICES ASSUME Len(ls) # n
               PROVE  /\ Len(ls) = n - 1 /\ ~ Closed(t)
                      /\ placed[n].word = NoWord /\ placed[n] # blank
    OBVIOUS
  <2>1. n > 0 /\ f[n] = Unended /\ Len(ls) = n - 1
    BY <1>5
  <2>2. n \in 1..n
    BY <1>1, <2>1
  <2>3. WellFinished(t, placed, n, f[n])
    BY <1>4, <2>2
  <2>4. Unended.word = NoWord
    BY DEF Unended, Raw
  <2> QED BY <2>1, <2>3, <2>4 DEF WellFinished, AllEnded, n
<1>7. ASSUME NEW i \in DOMAIN ls
      PROVE  /\ ls[i].word = placed[i].word
             /\ i < n /\ placed[i].lf => ls[i] = placed[i]
             /\ i < n \/ Closed(t) => ls[i].lf
  <2>1. WellFinished(t, placed, i, ls[i])
    BY <1>4, <1>5
  <2> QED BY <2>1 DEF WellFinished, n
<1>8. ~ Closed(t) /\ RawLines(t) # <<>> /\ n \in DOMAIN ls => ~ ls[n].lf \/ ls[n] = blank
  <2> SUFFICES ASSUME ~ Closed(t), RawLines(t) # <<>>, n \in DOMAIN ls
               PROVE  ~ ls[n].lf \/ ls[n] = blank
    OBVIOUS
  <2>1. WellFinished(t, placed, n, ls[n])
    BY <1>4, <1>5
  <2> QED BY <2>1 DEF WellFinished, AllEnded, n
<1> QED BY <1>5, <1>6, <1>7, <1>8 DEF EditedFile, n, ls

\* What edits do to their text, whatever they are.
LEMMA EditsFit ==
  ASSUME NEW t \in FileTexts, NEW edits \in Seq(Edits(Words)),
         \A i \in DOMAIN edits : edits[i].start <= edits[i].end,
         NEW result, result = EditLines(t, edits), result.state = "edited"
  PROVE  /\ Len(result.placements) = Cardinality(Changing(t, edits))
         /\ {result.placements[i] : i \in DOMAIN result.placements} =
              {WithEnds(edits[i], NewEnd(t)) : i \in Changing(t, edits)}
         /\ \A i \in 1..(Len(result.placements) - 1) : result.placements[i].end <= result.placements[i + 1].start
         /\ RangesHold(result) /\ RestHolds(result, RawLines(t), result.placements)
         /\ EditedFile(result, t)
<1> DEFINE raw == RawLines(t)
           cr == NewEnd(t)
           changing == Changing(t, edits)
           n == Cardinality(changing)
           at == At(edits, changing)
           es == Ordered(edits, changing)
           places == [i \in DOMAIN es |-> WithEnds(es[i], cr)]
           placed == Spliced(raw, places)
<1>1. changing \in SUBSET (DOMAIN edits)
  BY DEF Changing
<1>2. /\ ~ Rejected(raw, edits) /\ result.placed = placed
      /\ result.text = FileOf(t.bom, Finished(t, placed))
      /\ result.ranges = Ranges(places).ranges /\ result.placements = places
  <2> HIDE DEF places, placed
  <2>1. result = IF Rejected(raw, edits)
                 THEN [state |-> "rejected", text |-> t, placed |-> raw, ranges |-> <<>>, placements |-> <<>>]
                 ELSE [state |-> "edited", text |-> FileOf(t.bom, Finished(t, placed)), placed |-> placed,
                       ranges |-> Ranges(places).ranges, placements |-> places]
    BY DEF EditLines, placed, places
  <2>2. ~ Rejected(raw, edits)
    BY <2>1
  <2> QED BY <2>1, <2>2
<1>3. raw \in Seq(RawLine) /\ cr \in {0, 1} /\ (AllEnded(t) => raw \in Seq(EndedLine))
  BY RawLinesAre
<1> HIDE DEF changing, raw, cr
<1>4. /\ n \in Nat /\ at \in [1..n -> changing]
      /\ \A k \in changing : \E r \in 1..n : at[r] = k
      /\ \A r, q \in 1..n : r < q => EditBefore(edits, at[r], at[q])
      /\ es = [r \in 1..n |-> edits[at[r]]]
  BY <1>1, OrderedIs
<1> HIDE DEF n, at, es
<1>5. \A k \in DOMAIN edits : edits[k] \in Edits(Words)
  OBVIOUS
<1>6. ASSUME NEW r \in 1..n
      PROVE  /\ at[r] \in DOMAIN edits /\ es[r] = edits[at[r]] /\ places[r] = WithEnds(edits[at[r]], cr)
             /\ places[r].start = edits[at[r]].start /\ places[r].end = edits[at[r]].end
             /\ places[r].start \in Nat /\ places[r].end \in Nat /\ places[r] \in Edits(EndedLine)
  <2> DEFINE e == edits[at[r]]
             new == [i \in DOMAIN e.new |-> Raw(e.new[i], cr, TRUE)]
  <2>1. at[r] \in DOMAIN edits /\ es[r] = e /\ r \in DOMAIN es
    BY <1>1, <1>4
  <2>2. places[r] = [e EXCEPT !.new = new]
    BY <2>1 DEF WithEnds
  <2>3. e \in Edits(Words)
    BY <1>5, <2>1
  <2> HIDE DEF e, places
  <2>4. new \in Seq(EndedLine)
    <3>1. e.new \in Seq(Words)
      BY <2>3 DEF Edits
    <3>2. \A i \in DOMAIN e.new : Raw(e.new[i], cr, TRUE) \in EndedLine
      BY <1>3, <3>1 DEF Raw, EndedLine, RawLine
    <3>3. Len(e.new) \in Nat /\ DOMAIN e.new = 1..Len(e.new)
      BY <3>1
    <3>4. new \in [1..Len(e.new) -> EndedLine]
      BY <3>2, <3>3, Zenon
    <3> HIDE DEF new
    <3> QED BY <3>3, <3>4, NumberedIsSeq
  <2>5. /\ places[r].start = e.start /\ places[r].end = e.end
        /\ e.start \in Nat /\ e.end \in Nat /\ places[r] \in Edits(EndedLine)
    <3> HIDE DEF new
    <3> QED BY <2>2, <2>3, <2>4 DEF Edits
  <2>6. places[r] = WithEnds(e, cr)
    BY <2>2 DEF WithEnds
  <2> QED BY <2>1, <2>5, <2>6 DEF e
<1>7. Len(places) = n /\ DOMAIN places = 1..n /\ places = [r \in 1..n |-> places[r]]
  BY <1>4
<1> HIDE DEF places
<1>8. places \in Seq(Edits(EndedLine)) /\ places \in Seq(Edits(RawLine))
  <2>1. Edits(EndedLine) \subseteq Edits(RawLine)
    <3> SUFFICES ASSUME NEW e \in Edits(EndedLine) PROVE e \in Edits(RawLine)
      OBVIOUS
    <3>1. e.new \in Seq(EndedLine)
      BY DEF Edits
    <3>2. e.new \in Seq(RawLine)
      <4>1. \A i \in 1..Len(e.new) : e.new[i] \in RawLine
        BY <3>1 DEF EndedLine
      <4>2. e.new \in [1..Len(e.new) -> RawLine] /\ Len(e.new) \in Nat
        BY <3>1, <4>1
      <4> QED BY <4>2
    <3> QED BY <3>2 DEF Edits
  <2>2. \A r \in 1..n : places[r] \in Edits(EndedLine) /\ places[r] \in Edits(RawLine)
    BY <1>6, <2>1
  <2>3. places \in [1..n -> Edits(EndedLine)] /\ places \in [1..n -> Edits(RawLine)]
    BY <1>7, <2>2
  <2>4. n \in Nat
    BY <1>4
  <2> QED BY <2>3, <2>4, NumberedIsSeq
<1>9. InOrder(places, Len(raw))
  <2>1. ASSUME NEW r \in 1..n PROVE places[r].start <= places[r].end /\ places[r].end <= Len(raw)
    <3>1. ~ (edits[at[r]].end > Len(raw))
      BY <1>2, <1>6 DEF Rejected, OutOfRange
    <3>2. Len(raw) \in Nat
      BY <1>3
    <3> QED BY <1>6, <3>1, <3>2
  <2>2. ASSUME NEW r \in 1..(n - 1) PROVE places[r].end <= places[r + 1].start
    <3>1. r \in 1..n /\ r + 1 \in 1..n /\ r < r + 1
      BY <1>4
    <3>2. EditBefore(edits, at[r], at[r + 1])
      BY <1>4, <3>1
    <3>3. edits[at[r]].end <= edits[at[r + 1]].start
      BY <1>2, <1>6, <3>1, <3>2, ApartInOrder
    <3> QED BY <1>6, <3>1, <3>3
  <2> QED BY <1>7, <2>1, <2>2 DEF InOrder
<1>10. RangesHold(result) /\ RestHolds(result, raw, places)
  BY <1>2, <1>3, <1>8, <1>9, TextIsLaid
<1>11. EditedFile(result, t)
  <2>1. placed \in Seq(RawLine)
    BY <1>3, <1>8, <1>9, SplicedAre
  <2>2. AllEnded(t) => placed \in Seq(EndedLine)
    BY <1>3, <1>8, <1>9, SplicedAre
  <2> HIDE DEF placed
  <2> QED BY <1>2, <2>1, <2>2, FileIsMade
<1>12. {places[r] : r \in 1..n} = {WithEnds(edits[k], cr) : k \in changing}
  <2>1. \A r \in 1..n : at[r] \in changing /\ places[r] = WithEnds(edits[at[r]], cr)
    BY <1>4, <1>6
  <2> QED BY <1>4, <2>1
<1>13. \A r \in 1..(Len(places) - 1) : places[r].end <= places[r + 1].start
  BY <1>9 DEF InOrder
<1> QED BY <1>2, <1>7, <1>10, <1>11, <1>12, <1>13 DEF changing, n, raw, cr

\* The file a patch makes of the lines it placed.
LEMMA FileIsPatched ==
  ASSUME NEW t, NEW placed \in Seq(PatchLines), NEW result, result.placed = placed,
         result.placements # <<>>, result.text = Reended(t, placed)
  PROVE  PatchedFile(result, t)
<1> DEFINE n == Len(placed)
           gone == Open(t) /\ placed # <<>> /\ placed[n] = Empty
           kept == IF gone THEN n - 1 ELSE n
<1>1. n \in Nat /\ (placed # <<>> => n > 0)
  OBVIOUS
<1>2. result.text = [i \in 1..kept |->
                       [line |-> placed[i], end |-> IF Open(t) /\ i = n THEN "none" ELSE OneEnd(t)]]
  BY DEF Reended
<1>3. kept \in Nat /\ kept <= n
  <2> HIDE DEF n
  <2> QED BY <1>1
<1>4. Len(result.text) = kept /\ DOMAIN result.text = 1..kept
  <2> HIDE DEF n, kept
  <2> QED BY <1>2, <1>3
<1>5. kept # n => kept = n - 1 /\ Open(t) /\ placed[n] = Empty
  OBVIOUS
<1>6. \A i \in 1..kept : /\ result.text[i].line = placed[i]
                         /\ result.text[i].end = IF i = n /\ Open(t) THEN "none" ELSE OneEnd(t)
  <2> HIDE DEF n, kept
  <2> QED BY <1>2
<1> HIDE DEF kept
<1> QED BY <1>4, <1>5, <1>6 DEF PatchedFile

\* What a patch does to its text, whatever the hunks.
LEMMA PatchFits ==
  ASSUME NEW t \in Seq(EndedLines), NEW hunks \in Seq(Hunks), NEW result, result = ApplyUpdate(t, hunks)
  PROVE  /\ \A i \in 1..(Len(result.placements) - 1) : result.placements[i].end <= result.placements[i + 1].start
         /\ result.state = "patched" => RangesHold(result) /\ RestHolds(result, LinesOf(t), result.placements)
         /\ PatchedFile(result, t)
<1> DEFINE lines == LinesOf(t)
           acc == PlacedHunks(lines, hunks)
           places == acc.placements
           placed == Spliced(lines, places)
<1>1. lines \in Seq(PatchLines)
  <2>1. \A i \in DOMAIN t : t[i] \in EndedLines
    OBVIOUS
  <2>2. \A i \in DOMAIN t : t[i].line \in PatchLines
    BY <2>1 DEF EndedLines
  <2>3. Len(t) \in Nat /\ DOMAIN t = 1..Len(t)
    OBVIOUS
  <2>4. LinesOf(t) \in [1..Len(t) -> PatchLines]
    BY <2>2, <2>3, Zenon DEF LinesOf
  <2> QED BY <2>3, <2>4, NumberedIsSeq
<1>2. result = IF acc.state # "ok"
               THEN [state |-> acc.state, text |-> t, placed |-> lines, ranges |-> <<>>, placements |-> <<>>]
               ELSE [state |-> "patched", text |-> IF places = <<>> THEN t ELSE Reended(t, placed),
                     placed |-> placed, ranges |-> Ranges(places).ranges, placements |-> places]
  BY DEF ApplyUpdate
<1> HIDE DEF lines
<1>3. /\ acc.state \in {"ok", "ambiguous", "not_found"} /\ acc.cursor \in Nat
      /\ places \in Seq(Edits(PatchLines)) /\ acc.cursor <= Len(lines) /\ InOrder(places, acc.cursor)
  BY <1>1, HunksFit DEF Fit, Accs, Edits, Placements
<1>4. InOrder(places, Len(lines))
  <2>1. \A i \in 1..Len(places) : places[i].start <= places[i].end /\ places[i].end <= Len(lines)
    <3> SUFFICES ASSUME NEW i \in 1..Len(places)
                 PROVE  places[i].start <= places[i].end /\ places[i].end <= Len(lines)
      OBVIOUS
    <3>1. places[i] \in Edits(PatchLines)
      BY <1>3
    <3>2. places[i].end \in Nat /\ Len(lines) \in Nat
      BY <1>1, <3>1 DEF Edits
    <3>3. places[i].start <= places[i].end /\ places[i].end <= acc.cursor
      BY <1>3 DEF InOrder
    <3> QED BY <1>3, <3>2, <3>3
  <2> QED BY <1>3, <2>1 DEF InOrder
<1> HIDE DEF acc
<1>5. CASE acc.state # "ok"
  <2>1. result.state # "patched" /\ result.text = t /\ result.placements = <<>>
    BY <1>2, <1>3, <1>5
  <2> QED BY <2>1 DEF PatchedFile
<1>6. CASE acc.state = "ok"
  <2>1. /\ result.placed = placed /\ result.ranges = Ranges(places).ranges
        /\ result.placements = places
        /\ result.text = IF places = <<>> THEN t ELSE Reended(t, placed)
    BY <1>2, <1>6
  <2> HIDE DEF places
  <2>2. RangesHold(result) /\ RestHolds(result, lines, places)
    BY <1>1, <1>3, <1>4, <2>1, TextIsLaid
  <2>3. \A i \in 1..(Len(places) - 1) : places[i].end <= places[i + 1].start
    BY <1>4 DEF InOrder
  <2>4. placed \in Seq(PatchLines)
    BY <1>1, <1>3, <1>4, SplicedAre
  <2> HIDE DEF placed
  <2>5. PatchedFile(result, t)
    <3>1. CASE places = <<>>
      BY <2>1, <3>1 DEF PatchedFile
    <3>2. CASE places # <<>>
      BY <2>1, <2>4, <3>2, FileIsPatched
    <3> QED BY <3>1, <3>2
  <2> QED BY <2>1, <2>2, <2>3, <2>5 DEF lines
<1> QED BY <1>5, <1>6

JobInv ==
  /\ job.kind = "edit" =>
       /\ job.text \in FileTexts /\ job.edits \in Seq(Edits(Words))
       /\ \A i \in DOMAIN job.edits : job.edits[i].start <= job.edits[i].end
       /\ job.result = EditLines(job.text, job.edits)
  /\ job.kind = "patch" =>
       /\ job.text \in Seq(EndedLines) /\ job.hunks \in Seq(Hunks)
       /\ job.result = ApplyUpdate(job.text, job.hunks)

\* For every text and every list of edits or hunks: places never overlap, the new
\* lines stand where the reported ranges say and between them every line that none
\* names, and of those lines nothing is lost but what the end of a file without a
\* last line end loses (edit_lines, apply_update).
THEOREM TextsAreExact == TextSpec => []TextIsExact
<1>1. TextInit => JobInv
  BY DEF TextInit, JobInv, NoJob
<1>2. JobInv /\ [TextNext]_textVars => JobInv'
  <2> SUFFICES ASSUME JobInv, [TextNext]_textVars PROVE JobInv'
    OBVIOUS
  <2>1. CASE UNCHANGED job
    BY <2>1 DEF JobInv
  <2>2. CASE Edit
    <3>1. PICK t \in EditTexts, edits \in EditLists :
            job' = [kind |-> "edit", text |-> t, edits |-> edits, result |-> EditLines(t, edits)]
      BY <2>2 DEF Edit
    <3>2. /\ job'.kind = "edit" /\ job'.text = t /\ job'.edits = edits
          /\ job'.result = EditLines(t, edits)
      BY <3>1
    <3>3. /\ t \in FileTexts /\ edits \in Seq(Edits(Words))
          /\ \A i \in DOMAIN edits : edits[i].start <= edits[i].end
      BY EditAssumption DEF Edits, FileTexts
    <3> QED BY <3>2, <3>3 DEF JobInv
  <2>3. CASE Patch
    <3>1. PICK t \in PatchTexts, hunks \in PatchHunks :
            job' = [kind |-> "patch", text |-> t, hunks |-> hunks, result |-> ApplyUpdate(t, hunks)]
      BY <2>3 DEF Patch
    <3>2. /\ job'.kind = "patch" /\ job'.text = t /\ job'.hunks = hunks
          /\ job'.result = ApplyUpdate(t, hunks)
      BY <3>1
    <3>3. t \in Seq(EndedLines) /\ hunks \in Seq(Hunks)
      BY PatchAssumption DEF Hunks
    <3> QED BY <3>2, <3>3 DEF JobInv
  <2>4. UNCHANGED job \/ Edit \/ Patch
    BY DEF TextNext, textVars, RequestPage, TakeLine, Rewrite
  <2> QED BY <2>1, <2>2, <2>3, <2>4
<1>3. JobInv => EditsAreExact
  <2> SUFFICES ASSUME JobInv, job.kind = "edit", job.result.state = "edited"
               PROVE  LET places == job.result.placements
                          changing == Changing(job.text, job.edits)
                      IN /\ Len(places) = Cardinality(changing)
                         /\ {places[i] : i \in DOMAIN places} =
                              {WithEnds(job.edits[i], NewEnd(job.text)) : i \in changing}
                         /\ \A i \in 1..(Len(places) - 1) : places[i].end <= places[i + 1].start
                         /\ RangesHold(job.result) /\ RestHolds(job.result, RawLines(job.text), places)
                         /\ EditedFile(job.result, job.text)
    BY DEF EditsAreExact
  <2>1. /\ job.text \in FileTexts /\ job.edits \in Seq(Edits(Words))
        /\ \A i \in DOMAIN job.edits : job.edits[i].start <= job.edits[i].end
        /\ job.result = EditLines(job.text, job.edits)
    BY DEF JobInv
  <2> QED BY <2>1, EditsFit
<1>4. JobInv => PatchIsExact
  <2> SUFFICES ASSUME JobInv, job.kind = "patch"
               PROVE  LET places == job.result.placements
                      IN /\ \A i \in 1..(Len(places) - 1) : places[i].end <= places[i + 1].start
                         /\ job.result.state = "patched" => /\ RangesHold(job.result)
                                                           /\ RestHolds(job.result, LinesOf(job.text), places)
                         /\ PatchedFile(job.result, job.text)
    BY DEF PatchIsExact
  <2>1. /\ job.text \in Seq(EndedLines) /\ job.hunks \in Seq(Hunks)
        /\ job.result = ApplyUpdate(job.text, job.hunks)
    BY DEF JobInv
  <2> QED BY <2>1, PatchFits
<1>5. JobInv => TextIsExact
  BY <1>3, <1>4 DEF TextIsExact
<1> QED BY <1>1, <1>2, <1>5, PTL DEF TextSpec

----------------------------------------------------------------------------
(* What the files of a transaction hold, and what is in their backups.     *)

TxFields == {"owner", "pc", "i", "base", "saved", "installed", "touched", "failures", "disturbed", "why"}
Going == {"stage", "check", "backup", "install", "confirm", "final"}
Undoing == {"undo", "remove", "restore"}
AtFile == {"check", "backup", "install", "confirm", "remove", "restore"}
Begun == tx.pc # "free"

FilesShape ==
  /\ DOMAIN files = Paths /\ DOMAIN backup = Paths
  /\ \A p \in Paths : "tag" \in DOMAIN files[p] /\ "tag" \in DOMAIN backup[p]
  /\ DOMAIN tx = TxFields /\ DOMAIN tx.saved = Paths /\ DOMAIN tx.installed = Paths
  /\ tx.touched \subseteq Paths /\ tx.pc \in {"free", "cleanup", "release"} \cup Going \cup Undoing
  /\ tx.i \in 0..Len(PathOrder) /\ (tx.pc \in AtFile => tx.i \in 1..Len(PathOrder))

\* Nothing is renamed away but by the transaction that has the lock.
BackupsTouched == \A p \in Paths : backup[p] # Absent => Begun /\ p \in tx.touched

\* A call that has written nothing yet.
Fresh(c) == /\ call[c].pc \in {"idle", "lookup", "prepare", "commit"}
            /\ ~ (Begun /\ tx.owner = c)
\* What a call stages is nowhere before it holds the lock.
FreshUnseen ==
  \A c \in Calls, p \in Paths : Fresh(c) => files[p].tag # <<c, p>> /\ backup[p].tag # <<c, p>>

\* What a transaction installs is only where it says so, and never in a backup.
OwnIsKnown ==
  /\ \A p \in Paths : tx.installed[p] = Absent \/ tx.installed[p].tag = <<tx.owner, p>>
  /\ Begun => \A p \in Paths :
                /\ backup[p].tag # <<tx.owner, p>>
                /\ files[p].tag = <<tx.owner, p>> =>
                     /\ p \in tx.touched
                     /\ ~ (tx.pc = "restore" /\ Path = p)
                     /\ tx.pc = "remove" /\ Path = p => tx.installed[p] # Absent

\* What it renamed away is in the backup, or at its place again.
SavedIsKept ==
  Begun /\ ~ (tx.pc = "release" /\ tx.why = "done") =>
    \A p \in Paths : tx.saved[p] # Absent /\ p \notin tx.disturbed =>
      IF p \in tx.touched THEN backup[p] = tx.saved[p] ELSE SameBytes(files[p], tx.saved[p])

\* On the way forward: files are done in order, and what was renamed away is
\* what the request was prepared against.
ForwardInOrder ==
  tx.pc \in Going =>
    /\ \A p \in Paths : tx.saved[p] # Absent => p \in tx.touched /\ SameBytes(tx.saved[p], tx.base[p])
    /\ \A j \in 1..Len(PathOrder) : PathOrder[j] \in tx.touched =>
         /\ tx.pc # "stage" /\ (tx.pc \in {"check", "backup"} => j < tx.i)
         /\ (tx.pc \in {"install", "confirm"} => j <= tx.i)

\* On the way back: every file that was touched is still ahead, or has failed.
UndoneInOrder ==
  /\ tx.pc \in Undoing =>
       \A j \in 1..Len(PathOrder) : PathOrder[j] \in tx.touched => PathOrder[j] \in tx.failures \/ j <= tx.i
  /\ tx.pc \in {"remove", "restore"} => Path \in tx.touched
  /\ tx.pc = "cleanup" /\ tx.why # "done" => tx.touched = {}
  /\ tx.pc = "release" /\ tx.why \notin {"done", "rollback_failed"} => tx.touched = {}

\* What is about to be removed is known, or was written after the last look.
RemovalsKnown ==
  /\ lost \subseteq window
  /\ tx.pc = "remove" => \/ files[Path] = Absent \/ files[Path].tag \in window
                         \/ files[Path] = tx.installed[Path]
  /\ tx.pc = "cleanup" => \A p \in Paths : \/ backup[p] = Absent \/ backup[p].tag \in window
                                           \/ SameBytes(backup[p], tx.base[p])

FilesInv == /\ FilesShape /\ BackupsTouched /\ FreshUnseen /\ OwnIsKnown /\ SavedIsKept
            /\ ForwardInOrder /\ UndoneInOrder /\ RemovalsKnown

LEMMA Places ==
  /\ Len(PathOrder) \in Nat
  /\ \A j \in 1..Len(PathOrder) : PathOrder[j] \in Paths
  /\ \A j, k \in 1..Len(PathOrder) : PathOrder[j] = PathOrder[k] => j = k
  /\ \A p \in Paths : \E j \in 1..Len(PathOrder) : PathOrder[j] = p
<1>1. PathOrder \in Seq(Paths) /\ DOMAIN PathOrder = 1..Len(PathOrder) /\ Len(PathOrder) \in Nat
  BY PathOrderAssumption
<1>2. ToSet(PathOrder) = Paths /\ IsInjective(PathOrder)
  BY PathOrderAssumption
<1> QED BY <1>1, <1>2 DEF ToSet, IsInjective

\* What versions are told apart by.
LEMMA Tags ==
  /\ "tag" \in DOMAIN Absent
  /\ \A c \in Calls : \A p : /\ Absent.tag # <<c, p>>
                              /\ \A n : <<"external", n>> # <<c, p>> /\ <<"old", n>> # <<c, p>>
  /\ \A c, p : "tag" \in DOMAIN Content(c, p) /\ Content(c, p).tag = <<c, p>>
  /\ \A v : "tag" \in DOMAIN v => Touch(v).tag = v.tag /\ "tag" \in DOMAIN Touch(v)
  /\ \A p : Old(p).tag = <<"old", p>> /\ "tag" \in DOMAIN Old(p)
<1>1. \A c \in Calls : c # "absent" /\ c # "old" /\ c # "external"
  BY CallAssumption DEF Calls
<1> QED BY <1>1 DEF Absent, Content, Touch, Old

Held == Begun => tx.owner \in Calls /\ call[tx.owner].pc = "commit"
LEMMA HeldHolds == WritesInv => Held
  BY DEF WritesInv, TxHeld, Held, Begun

\* Steps that only choose what to do next.
LEMMA Steers ==
  ASSUME FilesInv, Held, UNCHANGED <<files, backup, lost, window, call>>, Begun, tx.pc # "release",
         DOMAIN tx' = TxFields, tx'.owner = tx.owner, tx'.base = tx.base, tx'.saved = tx.saved,
         tx'.touched = tx.touched, tx'.disturbed = tx.disturbed, DOMAIN tx'.installed = Paths,
         \A p \in Paths : tx'.installed[p] = tx.installed[p] \/ tx'.installed[p].tag = <<tx.owner, p>>,
         tx'.pc \in Going \cup {"undo", "remove", "cleanup", "release"},
         tx'.i \in 0..Len(PathOrder), tx'.pc \in AtFile => tx'.i \in 1..Len(PathOrder),
         ForwardInOrder', UndoneInOrder',
         tx'.pc = "remove" => files[PathOrder[tx'.i]] = tx'.installed[PathOrder[tx'.i]],
         tx'.pc = "cleanup" => \A p \in Paths : backup[p] = Absent \/ SameBytes(backup[p], tx.base[p])
  PROVE  FilesInv'
<1> USE DEF FilesInv
<1>1. FilesShape'
  BY DEF FilesShape, Undoing
<1>2. Begun'
  BY DEF Begun, Going
<1>3. BackupsTouched'
  BY <1>2 DEF BackupsTouched
<1>4. \A c \in Calls : Fresh(c)' => Fresh(c)
  BY <1>2 DEF Fresh
<1>5. FreshUnseen'
  BY <1>4 DEF FreshUnseen
<1>6. OwnIsKnown'
  <2>1. PICK o \in Calls : o = tx.owner
    BY DEF Held
  <2>2. /\ tx'.owner = o /\ tx'.touched = tx.touched /\ tx'.pc # "restore"
        /\ files' = files /\ backup' = backup
    BY <2>1 DEF Going
  <2>3. /\ \A p \in Paths : tx'.installed[p] = Absent \/ tx'.installed[p].tag = <<o, p>>
        /\ \A p \in Paths : /\ backup[p].tag # <<o, p>>
                            /\ files[p].tag = <<o, p>> => p \in tx.touched
    BY <2>1 DEF OwnIsKnown
  <2> HIDE DEF FilesInv
  <2>4. ASSUME NEW p \in Paths, files[p].tag = <<o, p>>, tx'.pc = "remove", PathOrder[tx'.i] = p
        PROVE  tx'.installed[p] # Absent
    <3>1. files[p] = tx'.installed[p]
      BY <2>4
    <3>2. Absent.tag # <<o, p>>
      BY Tags
    <3> QED BY <2>4, <3>1, <3>2
  <2> QED BY <2>2, <2>3, <2>4 DEF OwnIsKnown, Path
<1>7. SavedIsKept'
  BY DEF SavedIsKept
<1>8. RemovalsKnown'
  BY DEF RemovalsKnown, Path
<1> QED BY <1>1, <1>3, <1>5, <1>6, <1>7, <1>8

LEMMA Aborts ==
  ASSUME FilesInv, Held, UNCHANGED <<files, backup, lost, window, call>>, tx.pc \in Going,
         NEW why, tx' = Abort(why)
  PROVE  FilesInv'
<1>1. /\ DOMAIN tx' = TxFields /\ tx'.owner = tx.owner /\ tx'.base = tx.base /\ tx'.saved = tx.saved
      /\ tx'.installed = tx.installed /\ tx'.touched = tx.touched /\ tx'.disturbed = tx.disturbed
      /\ tx'.pc = "undo" /\ tx'.i = Len(PathOrder)
  BY DEF Abort, FilesInv, FilesShape, TxFields
<1>2. ForwardInOrder' /\ UndoneInOrder'
  BY <1>1, Places DEF ForwardInOrder, UndoneInOrder, Going
<1>3. Begun /\ tx.pc # "release"
  BY DEF Begun, Going
<1>4. tx'.i \in 0..Len(PathOrder)
  BY <1>1, Places
<1>5. DOMAIN tx'.installed = Paths
  BY <1>1 DEF FilesInv, FilesShape
<1> QED BY <1>1, <1>2, <1>3, <1>4, <1>5, Steers DEF AtFile, Going

\* What comes next is behind the files before n.
LEMMA Onward ==
  ASSUME DOMAIN tx = TxFields, NEW n \in Nat, n > 0, NEW x, x = GoTo(n)
  PROVE  /\ DOMAIN x = TxFields /\ x.owner = tx.owner /\ x.base = tx.base /\ x.saved = tx.saved
         /\ x.installed = tx.installed /\ x.touched = tx.touched /\ x.disturbed = tx.disturbed
         /\ \/ x.pc = "final" /\ x.i = 0
            \/ x.pc = "check" /\ x.i \in 1..Len(PathOrder) /\ x.i >= n
<1>1. \/ x = [tx EXCEPT !.pc = "final", !.i = 0]
      \/ \E j \in 1..Len(PathOrder) : j >= n /\ x = [tx EXCEPT !.pc = "check", !.i = j]
  <2>1. CASE NextIndex(tx.owner, n) = {}
    BY <2>1 DEF GoTo
  <2>2. CASE NextIndex(tx.owner, n) # {}
    <3>1. PICK j : j \in NextIndex(tx.owner, n) /\ x = [tx EXCEPT !.pc = "check", !.i = j]
      BY <2>2 DEF GoTo
    <3>2. j \in n..Len(PathOrder)
      BY <3>1 DEF NextIndex
    <3>3. j \in 1..Len(PathOrder) /\ j >= n
      BY <3>2, Places
    <3> QED BY <3>1, <3>3
  <2> QED BY <2>1, <2>2
<1> QED BY <1>1 DEF TxFields

\* On to the next file behind those that were touched.
LEMMA Proceeds ==
  ASSUME FilesInv, Held, UNCHANGED <<files, backup, lost, window, call>>, tx.pc \in Going,
         NEW n \in Nat, n > 0, NEW x, x = GoTo(n),
         \A j \in 1..Len(PathOrder) : PathOrder[j] \in tx.touched => j < n,
         DOMAIN tx' = TxFields, tx'.owner = x.owner, tx'.base = x.base, tx'.saved = x.saved,
         tx'.touched = x.touched, tx'.disturbed = x.disturbed, tx'.pc = x.pc, tx'.i = x.i,
         DOMAIN tx'.installed = Paths,
         \A p \in Paths : tx'.installed[p] = tx.installed[p] \/ tx'.installed[p].tag = <<tx.owner, p>>
  PROVE  FilesInv'
<1>1. DOMAIN tx = TxFields
  BY DEF FilesInv, FilesShape
<1>2. /\ tx'.owner = tx.owner /\ tx'.base = tx.base /\ tx'.saved = tx.saved
      /\ tx'.touched = tx.touched /\ tx'.disturbed = tx.disturbed
      /\ \/ tx'.pc = "final" /\ tx'.i = 0
         \/ tx'.pc = "check" /\ tx'.i \in 1..Len(PathOrder) /\ tx'.i >= n
  BY <1>1, Onward
<1>3. \A p \in Paths : tx.saved[p] # Absent => p \in tx.touched /\ SameBytes(tx.saved[p], tx.base[p])
  BY DEF FilesInv, ForwardInOrder
<1>4. \A j \in 1..Len(PathOrder) : PathOrder[j] \in tx.touched /\ tx'.pc = "check" => j < tx'.i
  BY <1>2, Places
<1>5. ForwardInOrder' /\ UndoneInOrder'
  BY <1>2, <1>3, <1>4 DEF ForwardInOrder, UndoneInOrder, Undoing
<1>6. Begun /\ tx.pc # "release"
  BY DEF Begun, Going
<1>7. tx'.i \in 0..Len(PathOrder)
  BY <1>2, Places
<1> QED BY <1>2, <1>5, <1>6, <1>7, Steers DEF AtFile, Going

----------------------------------------------------------------------------

LEMMA AcquireFiles ==
  ASSUME FilesInv, NEW c \in Calls, Acquire(c)
  PROVE  FilesInv'
<1>1. /\ tx.pc = "free" /\ call[c].pc = "commit" /\ UNCHANGED <<files, backup, call, lost, window>>
  BY DEF Acquire, Running, diskVars, historyVars
<1>2. /\ DOMAIN tx' = TxFields /\ tx'.owner = c /\ tx'.pc \in {"stage", "release"} /\ tx'.i = 0
      /\ DOMAIN tx'.saved = Paths /\ DOMAIN tx'.installed = Paths
      /\ \A p \in Paths : tx'.saved[p] = Absent /\ tx'.installed[p] = Absent
      /\ tx'.touched = {}
  <2>1. PICK begun : begun = [NoTx EXCEPT !.owner = c, !.base = call[c].base]
    OBVIOUS
  <2>2. /\ DOMAIN begun = TxFields /\ begun.owner = c /\ begun.i = 0
        /\ DOMAIN begun.saved = Paths /\ DOMAIN begun.installed = Paths
        /\ \A p \in Paths : begun.saved[p] = Absent /\ begun.installed[p] = Absent
        /\ begun.touched = {}
    BY <2>1 DEF NoTx, TxFields
  <2>3. \/ tx' = [begun EXCEPT !.pc = "release", !.why = "conflict"]
        \/ tx' = [begun EXCEPT !.pc = "release", !.why = "done"]
        \/ tx' = [begun EXCEPT !.pc = "stage"]
    BY <2>1 DEF Acquire
  <2> QED BY <2>2, <2>3 DEF TxFields
<1>3. /\ \A p \in Paths : backup[p] = Absent
      /\ \A p \in Paths : files[p].tag # <<c, p>> /\ backup[p].tag # <<c, p>>
  BY <1>1 DEF FilesInv, BackupsTouched, FreshUnseen, Fresh, Begun
<1>4. FilesShape'
  BY <1>1, <1>2, Places DEF FilesInv, FilesShape, Going, AtFile
<1>5. BackupsTouched'
  BY <1>1, <1>3 DEF BackupsTouched
<1>6. FreshUnseen'
  BY <1>1 DEF FilesInv, FreshUnseen, Fresh, Begun
<1>7. OwnIsKnown'
  BY <1>1, <1>2, <1>3 DEF OwnIsKnown
<1>8. SavedIsKept'
  BY <1>2 DEF SavedIsKept
<1>9. ForwardInOrder'
  BY <1>2 DEF ForwardInOrder
<1>10. UndoneInOrder'
  BY <1>2 DEF UndoneInOrder, Undoing
<1>11. RemovalsKnown'
  BY <1>1, <1>2 DEF FilesInv, RemovalsKnown
<1> QED BY <1>4, <1>5, <1>6, <1>7, <1>8, <1>9, <1>10, <1>11 DEF FilesInv

LEMMA StageFiles ==
  ASSUME FilesInv, Held, Stage
  PROVE  FilesInv'
<1>1. tx.pc \in Going /\ UNCHANGED <<files, backup, call, lost, window>>
  BY DEF Stage, Running, Going, diskVars, historyVars
<1>2. tx' = GoTo(1) \/ tx' = Abort("conflict") \/ tx' = Abort("io_error")
  BY DEF Stage
<1>3. \A j \in 1..Len(PathOrder) : PathOrder[j] \notin tx.touched
  BY <1>1 DEF FilesInv, ForwardInOrder, Stage, Running
<1>4. CASE tx' = GoTo(1)
  <2>1. PICK x : x = tx'
    OBVIOUS
  <2>2. DOMAIN tx = TxFields /\ DOMAIN tx.installed = Paths
    BY DEF FilesInv, FilesShape
  <2>3. DOMAIN x = TxFields /\ x.installed = tx.installed
    BY <1>4, <2>1, <2>2, Onward
  <2> QED BY <1>1, <1>3, <1>4, <2>1, <2>2, <2>3, Proceeds
<1> QED BY <1>1, <1>2, <1>4, Aborts

LEMMA CheckFiles ==
  ASSUME FilesInv, Held, CheckItem
  PROVE  FilesInv'
<1>1. tx.pc = "check" /\ UNCHANGED <<files, backup, call, lost, window>>
  BY DEF CheckItem, Running, diskVars, historyVars
<1>2. \/ tx' = Abort("conflict")
      \/ \E pc \in {"backup", "install"} : tx' = [tx EXCEPT !.pc = pc]
  BY DEF CheckItem
<1>3. CASE tx' = Abort("conflict")
  BY <1>1, <1>3, Aborts DEF Going
<1>4. ASSUME NEW pc \in {"backup", "install"}, tx' = [tx EXCEPT !.pc = pc]
      PROVE  FilesInv'
  <2>1. /\ DOMAIN tx' = TxFields /\ tx'.owner = tx.owner /\ tx'.base = tx.base /\ tx'.saved = tx.saved
        /\ tx'.installed = tx.installed /\ tx'.touched = tx.touched /\ tx'.disturbed = tx.disturbed
        /\ tx'.pc = pc /\ tx'.i = tx.i
    BY <1>4 DEF FilesInv, FilesShape, TxFields
  <2>2. tx.i \in 1..Len(PathOrder) /\ tx.i \in Nat
    BY <1>1, Places DEF FilesInv, FilesShape, AtFile
  <2>3. /\ \A p \in Paths : tx.saved[p] # Absent => p \in tx.touched /\ SameBytes(tx.saved[p], tx.base[p])
        /\ \A j \in 1..Len(PathOrder) : PathOrder[j] \in tx.touched => j < tx.i
    BY <1>1 DEF FilesInv, ForwardInOrder, Going
  <2>4. ForwardInOrder' /\ UndoneInOrder'
    BY <2>1, <2>2, <2>3, Places DEF ForwardInOrder, UndoneInOrder, Undoing
  <2>5. Begun /\ tx'.i \in 0..Len(PathOrder) /\ tx'.i \in 1..Len(PathOrder) /\ tx'.pc \in Going
        /\ tx'.pc \notin {"remove", "cleanup"} /\ tx.pc # "release"
    BY <1>1, <2>1, <2>2, Places DEF Begun, Going
  <2>6. DOMAIN tx'.installed = Paths
    BY <2>1 DEF FilesInv, FilesShape
  <2> QED BY <1>1, <2>1, <2>4, <2>5, <2>6, Steers
<1> QED BY <1>2, <1>3, <1>4

LEMMA FinalFiles ==
  ASSUME FilesInv, Held, FinalCheck
  PROVE  FilesInv'
<1>1. tx.pc = "final" /\ UNCHANGED <<files, backup, call, lost, window>>
  BY DEF FinalCheck, Running, diskVars, historyVars
<1>2. \/ tx' = Abort("conflict")
      \/ Revalidated /\ tx' = [tx EXCEPT !.pc = "cleanup", !.why = "done"]
  BY DEF FinalCheck
<1>3. CASE tx' = Abort("conflict")
  BY <1>1, <1>3, Aborts DEF Going
<1>4. CASE Revalidated /\ tx' = [tx EXCEPT !.pc = "cleanup", !.why = "done"]
  <2>1. /\ DOMAIN tx' = TxFields /\ tx'.owner = tx.owner /\ tx'.base = tx.base /\ tx'.saved = tx.saved
        /\ tx'.installed = tx.installed /\ tx'.touched = tx.touched /\ tx'.disturbed = tx.disturbed
        /\ tx'.pc = "cleanup" /\ tx'.why = "done" /\ tx'.i = tx.i
    BY <1>4 DEF FilesInv, FilesShape, TxFields
  <2>2. tx.i \in 0..Len(PathOrder)
    BY DEF FilesInv, FilesShape
  <2>3. \A p \in Paths : backup[p] = Absent \/ SameBytes(backup[p], tx.base[p])
    <3>1. \A p \in Paths : backup[p] # Absent => p \in tx.touched
      BY DEF FilesInv, BackupsTouched
    <3>2. \A p \in tx.touched : backup[p] = tx.saved[p]
      BY <1>4 DEF Revalidated
    <3>3. \A p \in Paths : tx.saved[p] # Absent => SameBytes(tx.saved[p], tx.base[p])
      BY <1>1 DEF FilesInv, ForwardInOrder, Going
    <3> QED BY <3>1, <3>2, <3>3
  <2>4. ForwardInOrder' /\ UndoneInOrder'
    BY <2>1 DEF ForwardInOrder, UndoneInOrder, Undoing, Going
  <2>5. Begun /\ tx'.pc \notin AtFile /\ tx'.pc # "remove" /\ tx.pc # "release"
    BY <1>1, <2>1 DEF Begun, AtFile
  <2>6. DOMAIN tx'.installed = Paths
    BY <2>1 DEF FilesInv, FilesShape
  <2> QED BY <1>1, <2>1, <2>2, <2>3, <2>4, <2>5, <2>6, Steers
<1> QED BY <1>2, <1>3, <1>4

\* The file at hand is not touched before it is backed up, so that what is
\* renamed away is not the transaction's own.
LEMMA BackUpFiles ==
  ASSUME FilesInv, Held, BackUp
  PROVE  FilesInv'
<1>1. tx.pc = "backup" /\ UNCHANGED <<call, lost, window>> /\ tx.pc \in Going
  BY DEF BackUp, Running, historyVars, Going
<1>2. PICK P, o : P = Path /\ o = tx.owner
  OBVIOUS
<1>3. o \in Calls /\ tx.i \in 1..Len(PathOrder) /\ P = PathOrder[tx.i] /\ P \in Paths
  BY <1>1, <1>2, Places DEF Held, Begun, FilesInv, FilesShape, AtFile, Path
<1>4. \/ tx' = Abort("io_error") /\ UNCHANGED <<files, backup>>
      \/ /\ files[P] # Absent /\ files' = [files EXCEPT ![P] = Absent]
         /\ backup' = [backup EXCEPT ![P] = Touch(files[P])]
         /\ LET moved == [tx EXCEPT !.touched = @ \cup {P}, !.saved[P] = Touch(files[P])]
            IN tx' = IF SameBytes(files[P], tx.base[P])
                    THEN [moved EXCEPT !.pc = "install"]
                    ELSE [moved EXCEPT !.pc = "undo", !.why = "conflict", !.i = Len(PathOrder)]
  BY <1>2 DEF BackUp
<1>5. CASE tx' = Abort("io_error") /\ UNCHANGED <<files, backup>>
  BY <1>1, <1>5, Aborts
<1>6. ASSUME files[P] # Absent, files' = [files EXCEPT ![P] = Absent],
             backup' = [backup EXCEPT ![P] = Touch(files[P])],
             NEW moved, moved = [tx EXCEPT !.touched = @ \cup {P}, !.saved[P] = Touch(files[P])],
             tx' = IF SameBytes(files[P], tx.base[P])
                   THEN [moved EXCEPT !.pc = "install"]
                   ELSE [moved EXCEPT !.pc = "undo", !.why = "conflict", !.i = Len(PathOrder)]
      PROVE  FilesInv'
  <2>1. /\ DOMAIN tx = TxFields /\ DOMAIN tx.saved = Paths /\ DOMAIN tx.installed = Paths
        /\ DOMAIN files = Paths /\ DOMAIN backup = Paths /\ tx.touched \subseteq Paths
        /\ \A p \in Paths : "tag" \in DOMAIN files[p] /\ "tag" \in DOMAIN backup[p]
    BY DEF FilesInv, FilesShape
  <2>2. /\ DOMAIN moved = TxFields /\ moved.owner = o /\ moved.base = tx.base /\ moved.installed = tx.installed
        /\ moved.touched = tx.touched \cup {P} /\ moved.disturbed = tx.disturbed /\ moved.i = tx.i
        /\ moved.saved = [tx.saved EXCEPT ![P] = Touch(files[P])]
    BY <1>2, <1>6, <2>1 DEF TxFields
  <2>3. /\ DOMAIN tx' = TxFields /\ tx'.owner = o /\ tx'.base = tx.base /\ tx'.installed = tx.installed
        /\ tx'.touched = tx.touched \cup {P} /\ tx'.disturbed = tx.disturbed
        /\ tx'.saved = [tx.saved EXCEPT ![P] = Touch(files[P])]
        /\ \/ tx'.pc = "install" /\ tx'.i = tx.i /\ SameBytes(files[P], tx.base[P])
           \/ tx'.pc = "undo" /\ tx'.i = Len(PathOrder)
    BY <1>6, <2>2 DEF TxFields
  <2>4. PICK v : v = Touch(files[P])
    OBVIOUS
  <2>5. v.tag = files[P].tag /\ "tag" \in DOMAIN v
    BY <1>3, <2>1, <2>4, Tags
  <2>6. /\ backup'[P] = v /\ files'[P] = Absent /\ tx'.saved[P] = v
        /\ \A p \in Paths \ {P} : backup'[p] = backup[p] /\ files'[p] = files[p] /\ tx'.saved[p] = tx.saved[p]
        /\ DOMAIN backup' = Paths /\ DOMAIN files' = Paths /\ DOMAIN tx'.saved = Paths
    BY <1>3, <1>6, <2>1, <2>3, <2>4
  <2>7. Begun /\ Begun'
    BY <1>1, <2>3 DEF Begun
  <2>8. P \notin tx.touched /\ tx.i \in Nat
    BY <1>1, <1>3, Places DEF FilesInv, ForwardInOrder
  <2>9. FilesShape'
    BY <1>3, <2>1, <2>3, <2>5, <2>6, Places, Tags DEF FilesShape, Going, Undoing, AtFile
  <2>10. BackupsTouched'
    BY <2>3, <2>6, <2>7 DEF FilesInv, BackupsTouched
  <2>11. FreshUnseen'
    <3>1. \A c \in Calls : Fresh(c)' => Fresh(c)
      BY <1>1, <1>2, <2>3, <2>7 DEF Fresh
    <3>2. \A c \in Calls, p \in Paths : Fresh(c) => files[p].tag # <<c, p>> /\ backup[p].tag # <<c, p>>
      BY DEF FilesInv, FreshUnseen
    <3>3. \A c \in Calls, p \in Paths : Fresh(c) => files'[p].tag # <<c, p>> /\ backup'[p].tag # <<c, p>>
      <4>1. ASSUME NEW c \in Calls, Fresh(c)
            PROVE  files'[P].tag # <<c, P>> /\ backup'[P].tag # <<c, P>>
        <5>1. Absent.tag # <<c, P>>
          BY Tags
        <5>2. v.tag # <<c, P>>
          BY <1>3, <2>5, <3>2, <4>1
        <5> QED BY <2>6, <5>1, <5>2
      <4> QED BY <2>6, <3>2, <4>1
    <3> QED BY <3>1, <3>3 DEF FreshUnseen
  <2>12. OwnIsKnown'
    <3>1. /\ \A p \in Paths : tx.installed[p] = Absent \/ tx.installed[p].tag = <<o, p>>
          /\ \A p \in Paths : backup[p].tag # <<o, p>>
          /\ \A p \in Paths : files[p].tag = <<o, p>> => p \in tx.touched
      BY <1>2, <2>7 DEF FilesInv, OwnIsKnown
    <3>2. \A p \in Paths : /\ backup'[p].tag # <<o, p>>
                           /\ files'[p].tag = <<o, p>> => p \in tx'.touched
      BY <1>3, <2>3, <2>5, <2>6, <2>8, <3>1, Tags
    <3> QED BY <2>3, <3>1, <3>2 DEF OwnIsKnown
  <2>13. SavedIsKept'
    BY <1>1, <2>3, <2>6, <2>7 DEF FilesInv, SavedIsKept
  <2>14. /\ \A p \in Paths : tx.saved[p] # Absent => p \in tx.touched /\ SameBytes(tx.saved[p], tx.base[p])
         /\ \A j \in 1..Len(PathOrder) : PathOrder[j] \in tx.touched => j < tx.i
    BY <1>1 DEF FilesInv, ForwardInOrder
  <2>15. ForwardInOrder'
    <3>1. CASE tx'.pc = "install"
      <4>1. \A p \in Paths : tx'.saved[p] # Absent => p \in tx'.touched /\ SameBytes(tx'.saved[p], tx'.base[p])
        BY <2>3, <2>5, <2>6, <2>14, <3>1 DEF SameBytes
      <4>2. \A j \in 1..Len(PathOrder) : PathOrder[j] \in tx'.touched => j <= tx'.i
        BY <1>3, <2>3, <2>14, <3>1, Places
      <4> QED BY <3>1, <4>1, <4>2 DEF ForwardInOrder
    <3>2. CASE tx'.pc = "undo"
      BY <3>2 DEF ForwardInOrder, Going
    <3> QED BY <2>3, <3>1, <3>2
  <2>16. UndoneInOrder'
    BY <2>3, Places DEF UndoneInOrder, Undoing
  <2>17. RemovalsKnown'
    BY <1>1, <2>3 DEF FilesInv, RemovalsKnown
  <2> QED BY <2>9, <2>10, <2>11, <2>12, <2>13, <2>15, <2>16, <2>17 DEF FilesInv
<1>7. CASE /\ files[P] # Absent /\ files' = [files EXCEPT ![P] = Absent]
           /\ backup' = [backup EXCEPT ![P] = Touch(files[P])]
           /\ LET moved == [tx EXCEPT !.touched = @ \cup {P}, !.saved[P] = Touch(files[P])]
              IN tx' = IF SameBytes(files[P], tx.base[P])
                      THEN [moved EXCEPT !.pc = "install"]
                      ELSE [moved EXCEPT !.pc = "undo", !.why = "conflict", !.i = Len(PathOrder)]
  BY <1>6, <1>7
<1> QED BY <1>4, <1>5, <1>7

LEMMA InstallFiles ==
  ASSUME FilesInv, Held, Install
  PROVE  FilesInv'
<1>1. tx.pc = "install" /\ UNCHANGED <<backup, call, lost, window>> /\ tx.pc \in Going
  BY DEF Install, Running, historyVars, Going
<1>2. PICK P, o : P = Path /\ o = tx.owner
  OBVIOUS
<1>3. o \in Calls /\ tx.i \in 1..Len(PathOrder) /\ P = PathOrder[tx.i] /\ P \in Paths /\ tx.i \in Nat
  BY <1>1, <1>2, Places DEF Held, Begun, FilesInv, FilesShape, AtFile, Path
<1>4. \/ tx' = Abort("io_error") /\ UNCHANGED files
      \/ tx' = GoTo(tx.i + 1) /\ UNCHANGED files
      \/ /\ files[P] = Absent /\ files' = [files EXCEPT ![P] = Content(o, P)]
         /\ tx' = [tx EXCEPT !.pc = "confirm", !.touched = @ \cup {P}]
  BY <1>2 DEF Install
<1>5. CASE tx' = Abort("io_error") /\ UNCHANGED files
  BY <1>1, <1>5, Aborts
<1>6. DOMAIN tx = TxFields /\ DOMAIN tx.installed = Paths /\ DOMAIN tx.saved = Paths
  BY DEF FilesInv, FilesShape
<1>7. /\ \A p \in Paths : tx.saved[p] # Absent => p \in tx.touched /\ SameBytes(tx.saved[p], tx.base[p])
      /\ \A j \in 1..Len(PathOrder) : PathOrder[j] \in tx.touched => j <= tx.i
  BY <1>1 DEF FilesInv, ForwardInOrder
<1>8. CASE tx' = GoTo(tx.i + 1) /\ UNCHANGED files
  <2>1. PICK n, x : n = tx.i + 1 /\ x = tx'
    OBVIOUS
  <2>2. /\ n \in Nat /\ n > 0 /\ x = GoTo(n)
        /\ \A j \in 1..Len(PathOrder) : PathOrder[j] \in tx.touched => j < n
    BY <1>3, <1>7, <1>8, <2>1, Places
  <2>3. DOMAIN x = TxFields /\ x.installed = tx.installed
    BY <1>6, <2>2, Onward
  <2> QED BY <1>1, <1>6, <1>8, <2>1, <2>2, <2>3, Proceeds
<1>9. CASE /\ files[P] = Absent /\ files' = [files EXCEPT ![P] = Content(o, P)]
           /\ tx' = [tx EXCEPT !.pc = "confirm", !.touched = @ \cup {P}]
  <2>1. /\ DOMAIN tx' = TxFields /\ tx'.owner = o /\ tx'.base = tx.base /\ tx'.installed = tx.installed
        /\ tx'.touched = tx.touched \cup {P} /\ tx'.disturbed = tx.disturbed /\ tx'.saved = tx.saved
        /\ tx'.pc = "confirm" /\ tx'.i = tx.i
    BY <1>2, <1>6, <1>9 DEF TxFields
  <2>2. DOMAIN files = Paths /\ DOMAIN backup = Paths /\ tx.touched \subseteq Paths
        /\ \A p \in Paths : "tag" \in DOMAIN files[p] /\ "tag" \in DOMAIN backup[p]
    BY DEF FilesInv, FilesShape
  <2>3. PICK v : v = Content(o, P)
    OBVIOUS
  <2>4. v.tag = <<o, P>> /\ "tag" \in DOMAIN v
    BY <2>3, Tags
  <2>5. files'[P] = v /\ DOMAIN files' = Paths /\ \A p \in Paths \ {P} : files'[p] = files[p]
    BY <1>3, <1>9, <2>2, <2>3
  <2>6. Begun /\ Begun'
    BY <1>1, <2>1 DEF Begun
  <2>7. FilesShape'
    BY <1>1, <1>3, <1>6, <2>1, <2>2, <2>4, <2>5, Places DEF FilesShape, Going
  <2>8. BackupsTouched'
    BY <1>1, <2>1, <2>6 DEF FilesInv, BackupsTouched
  <2>9. FreshUnseen'
    <3>1. \A c \in Calls : Fresh(c)' => Fresh(c) /\ c # o
      BY <1>1, <1>2, <2>1, <2>6 DEF Fresh
    <3>2. \A c \in Calls, p \in Paths : Fresh(c) => files[p].tag # <<c, p>> /\ backup[p].tag # <<c, p>>
      BY DEF FilesInv, FreshUnseen
    <3>3. \A c \in Calls, p \in Paths : Fresh(c) /\ c # o => files'[p].tag # <<c, p>> /\ backup'[p].tag # <<c, p>>
      BY <1>1, <1>3, <2>4, <2>5, <3>2
    <3> QED BY <3>1, <3>3 DEF FreshUnseen
  <2>10. OwnIsKnown'
    <3>1. /\ \A p \in Paths : tx.installed[p] = Absent \/ tx.installed[p].tag = <<o, p>>
          /\ \A p \in Paths : backup[p].tag # <<o, p>>
          /\ \A p \in Paths : files[p].tag = <<o, p>> => p \in tx.touched
      BY <1>2, <2>6 DEF FilesInv, OwnIsKnown
    <3>2. \A p \in Paths : /\ backup'[p].tag # <<o, p>>
                           /\ files'[p].tag = <<o, p>> => p \in tx'.touched
      BY <1>1, <1>3, <2>1, <2>5, <3>1
    <3> QED BY <2>1, <3>1, <3>2 DEF OwnIsKnown
  <2>11. SavedIsKept'
    BY <1>1, <1>7, <2>1, <2>5, <2>6 DEF FilesInv, SavedIsKept
  <2>12. ForwardInOrder'
    <3>1. \A j \in 1..Len(PathOrder) : PathOrder[j] \in tx'.touched => j <= tx'.i
      BY <1>3, <1>7, <2>1, Places
    <3> QED BY <1>7, <2>1, <3>1 DEF ForwardInOrder
  <2>13. UndoneInOrder'
    BY <2>1 DEF UndoneInOrder, Undoing
  <2>14. RemovalsKnown'
    BY <1>1, <2>1 DEF FilesInv, RemovalsKnown
  <2> QED BY <2>7, <2>8, <2>9, <2>10, <2>11, <2>12, <2>13, <2>14 DEF FilesInv
<1> QED BY <1>4, <1>5, <1>8, <1>9

LEMMA ConfirmFiles ==
  ASSUME FilesInv, Held, Confirm
  PROVE  FilesInv'
<1>1. tx.pc = "confirm" /\ UNCHANGED <<files, backup, call, lost, window>> /\ tx.pc \in Going
  BY DEF Confirm, Running, diskVars, historyVars, Going
<1>2. PICK P, o, n : P = Path /\ o = tx.owner /\ n = tx.i + 1
  OBVIOUS
<1>3. /\ o \in Calls /\ tx.i \in 1..Len(PathOrder) /\ P = PathOrder[tx.i] /\ P \in Paths
      /\ n \in Nat /\ n > 0
  BY <1>1, <1>2, Places DEF Held, Begun, FilesInv, FilesShape, AtFile, Path
<1>4. \/ \E why : tx' = Abort(why)
      \/ SameBytes(files[P], Content(o, P)) /\ tx' = [GoTo(n) EXCEPT !.installed[P] = files[P]]
  BY <1>2 DEF Confirm
<1>5. ASSUME NEW why, tx' = Abort(why) PROVE FilesInv'
  BY <1>1, <1>5, Aborts
<1>6. CASE SameBytes(files[P], Content(o, P)) /\ tx' = [GoTo(n) EXCEPT !.installed[P] = files[P]]
  <2>1. DOMAIN tx = TxFields /\ DOMAIN tx.installed = Paths
    BY DEF FilesInv, FilesShape
  <2>2. PICK x : x = GoTo(n)
    OBVIOUS
  <2>3. DOMAIN x = TxFields /\ x.installed = tx.installed
    BY <1>3, <2>1, <2>2, Onward
  <2>4. \A j \in 1..Len(PathOrder) : PathOrder[j] \in tx.touched => j < n
    BY <1>1, <1>2, <1>3, Places DEF FilesInv, ForwardInOrder
  <2>5. files[P].tag = <<o, P>>
    BY <1>6, Tags DEF SameBytes
  <2>6. /\ DOMAIN tx' = TxFields /\ tx'.owner = x.owner /\ tx'.base = x.base /\ tx'.saved = x.saved
        /\ tx'.touched = x.touched /\ tx'.disturbed = x.disturbed /\ tx'.pc = x.pc /\ tx'.i = x.i
        /\ tx'.installed = [tx.installed EXCEPT ![P] = files[P]]
    BY <1>6, <2>2, <2>3 DEF TxFields
  <2>7. /\ DOMAIN tx'.installed = Paths
        /\ \A p \in Paths : tx'.installed[p] = tx.installed[p] \/ tx'.installed[p].tag = <<tx.owner, p>>
    BY <1>2, <1>3, <2>1, <2>5, <2>6
  <2> QED BY <1>1, <1>3, <2>2, <2>4, <2>6, <2>7, Proceeds
<1> QED BY <1>4, <1>5, <1>6

\* Rollback goes from file to file and leaves none behind that has not failed.
LEMMA UndoFiles ==
  ASSUME FilesInv, Held, Undo
  PROVE  FilesInv'
<1>1. tx.pc = "undo" /\ UNCHANGED <<files, backup, call, lost, window>> /\ Begun /\ tx.pc # "release"
  BY DEF Undo, Running, diskVars, historyVars, Begun
<1>2. PICK P : P = Path
  OBVIOUS
<1>3. /\ DOMAIN tx = TxFields /\ DOMAIN tx.installed = Paths /\ tx.touched \subseteq Paths
      /\ tx.i \in 0..Len(PathOrder) /\ tx.i \in Nat
  BY Places DEF FilesInv, FilesShape
<1>4. \A j \in 1..Len(PathOrder) : PathOrder[j] \in tx.touched => PathOrder[j] \in tx.failures \/ j <= tx.i
  BY <1>1 DEF FilesInv, UndoneInOrder, Undoing
<1>5. tx.i # 0 => tx.i \in 1..Len(PathOrder) /\ P = PathOrder[tx.i] /\ tx.i - 1 \in 0..Len(PathOrder)
  BY <1>2, <1>3, Places DEF Path
<1>6. \/ tx.i = 0 /\ tx.failures = {} /\ tx' = [tx EXCEPT !.pc = "cleanup"]
      \/ tx.i = 0 /\ tx' = [tx EXCEPT !.pc = "release", !.why = "rollback_failed"]
      \/ tx.i # 0 /\ P \notin tx.touched /\ tx' = [tx EXCEPT !.i = @ - 1]
      \/ tx.i # 0 /\ P \in tx.touched /\ files[P] = tx.installed[P] /\ tx' = [tx EXCEPT !.pc = "remove"]
      \/ tx.i # 0 /\ tx' = [tx EXCEPT !.i = @ - 1, !.failures = @ \cup {P}]
  <2>1. tx.why = tx.why /\ [tx EXCEPT !.pc = "cleanup", !.why = @] = [tx EXCEPT !.pc = "cleanup"]
    BY <1>3 DEF TxFields
  <2> QED BY <1>2, <2>1 DEF Undo, Undoable
<1>7. /\ DOMAIN tx' = TxFields /\ tx'.owner = tx.owner /\ tx'.base = tx.base /\ tx'.saved = tx.saved
      /\ tx'.installed = tx.installed /\ tx'.touched = tx.touched /\ tx'.disturbed = tx.disturbed
      /\ \/ tx.i = 0 /\ tx.failures = {} /\ tx'.pc = "cleanup" /\ tx'.i = 0
         \/ tx.i = 0 /\ tx'.pc = "release" /\ tx'.why = "rollback_failed" /\ tx'.i = 0
         \/ tx.i # 0 /\ P \notin tx.touched /\ tx'.pc = "undo" /\ tx'.i = tx.i - 1 /\ tx'.failures = tx.failures
         \/ /\ tx.i # 0 /\ P \in tx.touched /\ files[P] = tx.installed[P]
            /\ tx'.pc = "remove" /\ tx'.i = tx.i /\ tx'.failures = tx.failures
         \/ tx.i # 0 /\ tx'.pc = "undo" /\ tx'.i = tx.i - 1 /\ tx'.failures = tx.failures \cup {P}
  BY <1>1, <1>3, <1>6 DEF TxFields
<1>8. tx.i = 0 /\ tx.failures = {} => tx.touched = {}
  BY <1>3, <1>4, Places
<1>9. ForwardInOrder'
  BY <1>7 DEF ForwardInOrder, Going
<1>10. UndoneInOrder'
  <2>1. CASE tx'.pc \in {"cleanup", "release"}
    BY <1>7, <1>8, <2>1 DEF UndoneInOrder, Undoing
  <2>2. CASE tx'.pc = "undo" /\ tx.i # 0
    <3>1. \A j \in 1..Len(PathOrder) : PathOrder[j] \in tx'.touched => PathOrder[j] \in tx'.failures \/ j <= tx'.i
      BY <1>3, <1>4, <1>5, <1>7, <2>2, Places
    <3> QED BY <2>2, <3>1 DEF UndoneInOrder
  <2>3. CASE tx'.pc = "remove" /\ tx.i # 0
    BY <1>4, <1>5, <1>7, <2>3 DEF UndoneInOrder, Path
  <2> QED BY <1>7, <2>1, <2>2, <2>3
<1>11. tx'.pc = "cleanup" => \A p \in Paths : backup[p] = Absent
  BY <1>1, <1>7, <1>8 DEF FilesInv, BackupsTouched
<1>12. /\ tx'.pc \in {"undo", "remove", "cleanup", "release"} /\ tx'.i \in 0..Len(PathOrder)
       /\ tx'.pc = "remove" => tx'.i \in 1..Len(PathOrder) /\ files[PathOrder[tx'.i]] = tx'.installed[PathOrder[tx'.i]]
  BY <1>3, <1>5, <1>7, Places
<1>13. tx'.pc \in AtFile => tx'.i \in 1..Len(PathOrder)
  BY <1>12 DEF AtFile
<1> QED BY <1>1, <1>3, <1>7, <1>9, <1>10, <1>11, <1>12, <1>13, Steers

\* A step of a rollback that fails: its file stays as it is.
LEMMA FailsFiles ==
  ASSUME FilesInv, Held, UNCHANGED <<files, backup, call, lost, window>>, tx.pc \in {"remove", "restore"},
         tx' = [tx EXCEPT !.pc = "undo", !.i = @ - 1, !.failures = @ \cup {Path}]
  PROVE  FilesInv'
<1>1. PICK P : P = Path
  OBVIOUS
<1>2. /\ DOMAIN tx = TxFields /\ DOMAIN tx.installed = Paths /\ tx.i \in 1..Len(PathOrder) /\ tx.i \in Nat
      /\ P = PathOrder[tx.i] /\ tx.i - 1 \in 0..Len(PathOrder)
  BY <1>1, Places DEF FilesInv, FilesShape, AtFile, Path
<1>3. /\ DOMAIN tx' = TxFields /\ tx'.owner = tx.owner /\ tx'.base = tx.base /\ tx'.saved = tx.saved
      /\ tx'.installed = tx.installed /\ tx'.touched = tx.touched /\ tx'.disturbed = tx.disturbed
      /\ tx'.pc = "undo" /\ tx'.i = tx.i - 1 /\ tx'.failures = tx.failures \cup {P}
  BY <1>1, <1>2 DEF TxFields
<1>4. \A j \in 1..Len(PathOrder) : PathOrder[j] \in tx.touched => PathOrder[j] \in tx.failures \/ j <= tx.i
  BY DEF FilesInv, UndoneInOrder, Undoing
<1>5. \A j \in 1..Len(PathOrder) : PathOrder[j] \in tx'.touched => PathOrder[j] \in tx'.failures \/ j <= tx'.i
  BY <1>2, <1>3, <1>4, Places
<1>6. ForwardInOrder' /\ UndoneInOrder'
  BY <1>3, <1>5 DEF ForwardInOrder, UndoneInOrder, Going
<1>7. Begun /\ tx.pc # "release" /\ tx'.pc \notin AtFile
  BY <1>3 DEF Begun, AtFile
<1> QED BY <1>2, <1>3, <1>6, <1>7, Steers

\* What is removed is the transaction's own, or was written after the last look.
LEMMA RemoveFiles ==
  ASSUME FilesInv, Held, RemoveInstalled
  PROVE  FilesInv'
<1>1. tx.pc = "remove" /\ UNCHANGED <<backup, call, window>>
  BY DEF RemoveInstalled, Running
<1>2. PICK P, o : P = Path /\ o = tx.owner
  OBVIOUS
<1>3. /\ o \in Calls /\ tx.i \in 1..Len(PathOrder) /\ P = PathOrder[tx.i] /\ P \in Paths /\ tx.i \in Nat
      /\ tx.i \in 0..Len(PathOrder) /\ P \in tx.touched
  BY <1>1, <1>2, Places DEF Held, Begun, FilesInv, FilesShape, AtFile, Path, UndoneInOrder
<1>4. \/ /\ UNCHANGED <<files, lost>>
         /\ tx' = [tx EXCEPT !.pc = "undo", !.i = @ - 1, !.failures = @ \cup {Path}]
      \/ /\ tx.installed[P] = Absent /\ UNCHANGED <<files, lost>> /\ tx' = [tx EXCEPT !.pc = "restore"]
      \/ /\ tx.installed[P] # Absent /\ files[P] # Absent /\ tx' = [tx EXCEPT !.pc = "restore"]
         /\ files' = [files EXCEPT ![P] = Absent]
         /\ lost' = IF ~ SameBytes(files[P], Content(o, P)) THEN lost \cup {files[P].tag} ELSE lost
  BY <1>2 DEF RemoveInstalled
<1>5. CASE /\ UNCHANGED <<files, lost>>
           /\ tx' = [tx EXCEPT !.pc = "undo", !.i = @ - 1, !.failures = @ \cup {Path}]
  BY <1>1, <1>5, FailsFiles
<1>6. CASE \/ /\ tx.installed[P] = Absent /\ UNCHANGED <<files, lost>> /\ tx' = [tx EXCEPT !.pc = "restore"]
           \/ /\ tx.installed[P] # Absent /\ files[P] # Absent /\ tx' = [tx EXCEPT !.pc = "restore"]
              /\ files' = [files EXCEPT ![P] = Absent]
              /\ lost' = IF ~ SameBytes(files[P], Content(o, P)) THEN lost \cup {files[P].tag} ELSE lost
  <2>1. /\ DOMAIN tx = TxFields /\ DOMAIN tx.saved = Paths /\ DOMAIN tx.installed = Paths
        /\ DOMAIN files = Paths /\ DOMAIN backup = Paths /\ tx.touched \subseteq Paths
        /\ \A p \in Paths : "tag" \in DOMAIN files[p] /\ "tag" \in DOMAIN backup[p]
    BY DEF FilesInv, FilesShape
  <2>2. /\ DOMAIN tx' = TxFields /\ tx'.owner = o /\ tx'.base = tx.base /\ tx'.installed = tx.installed
        /\ tx'.touched = tx.touched /\ tx'.disturbed = tx.disturbed /\ tx'.saved = tx.saved
        /\ tx'.pc = "restore" /\ tx'.i = tx.i /\ tx'.failures = tx.failures
    BY <1>2, <1>6, <2>1 DEF TxFields
  <2>3. Begun /\ Begun'
    BY <1>1, <2>2 DEF Begun
  <2>4. /\ DOMAIN files' = Paths /\ \A p \in Paths \ {P} : files'[p] = files[p]
        /\ \/ files'[P] = Absent
           \/ tx.installed[P] = Absent /\ files'[P] = files[P]
    <3>1. CASE UNCHANGED files /\ tx.installed[P] = Absent
      BY <2>1, <3>1
    <3>2. CASE files' = [files EXCEPT ![P] = Absent]
      BY <1>3, <2>1, <3>2
    <3> QED BY <1>6, <3>1, <3>2
  <2>5. \A p : Absent.tag # <<o, p>> /\ "tag" \in DOMAIN Absent
    BY <1>3, Tags
  <2>6. /\ \A p \in Paths : tx.installed[p] = Absent \/ tx.installed[p].tag = <<o, p>>
        /\ \A p \in Paths : backup[p].tag # <<o, p>>
        /\ \A p \in Paths : files[p].tag = <<o, p>> => p \in tx.touched
        /\ files[P].tag = <<o, P>> => tx.installed[P] # Absent
    BY <1>1, <1>2, <1>3, <2>3 DEF FilesInv, OwnIsKnown
  <2>7. FilesShape'
    BY <1>1, <1>3, <2>1, <2>2, <2>4, <2>5 DEF FilesShape, Undoing
  <2>8. BackupsTouched'
    BY <1>1, <2>2, <2>3 DEF FilesInv, BackupsTouched
  <2>9. FreshUnseen'
    <3>1. \A c \in Calls : Fresh(c)' => Fresh(c)
      BY <1>1, <1>2, <2>2, <2>3 DEF Fresh
    <3>2. \A c \in Calls, p \in Paths : Fresh(c) => files[p].tag # <<c, p>> /\ backup[p].tag # <<c, p>>
      BY DEF FilesInv, FreshUnseen
    <3>3. \A c \in Calls, p \in Paths : Absent.tag # <<c, p>>
      BY Tags
    <3>4. \A c \in Calls, p \in Paths : Fresh(c) => files'[p].tag # <<c, p>> /\ backup'[p].tag # <<c, p>>
      BY <1>1, <2>4, <3>2, <3>3
    <3> QED BY <3>1, <3>4 DEF FreshUnseen
  <2>10. OwnIsKnown'
    <3>1. files'[P].tag # <<o, P>>
      BY <2>4, <2>5, <2>6
    <3>2. \A p \in Paths : /\ backup'[p].tag # <<o, p>>
                           /\ files'[p].tag = <<o, p>> => p \in tx'.touched /\ p # P
      BY <1>1, <2>2, <2>4, <2>6, <3>1
    <3>3. Path' = P
      BY <1>3, <2>2 DEF Path
    <3> QED BY <2>2, <2>6, <3>2, <3>3 DEF OwnIsKnown
  <2>11. SavedIsKept'
    BY <1>1, <1>3, <2>2, <2>3, <2>4 DEF FilesInv, SavedIsKept
  <2>12. ForwardInOrder'
    BY <2>2 DEF ForwardInOrder, Going
  <2>13. UndoneInOrder'
    <3>1. \A j \in 1..Len(PathOrder) : PathOrder[j] \in tx.touched => PathOrder[j] \in tx.failures \/ j <= tx.i
      BY <1>1 DEF FilesInv, UndoneInOrder, Undoing
    <3>2. Path' = P
      BY <1>3, <2>2 DEF Path
    <3> QED BY <1>3, <2>2, <3>1, <3>2 DEF UndoneInOrder
  <2>14. RemovalsKnown'
    <3>1. lost \subseteq window /\ (files[P] = Absent \/ files[P].tag \in window \/ files[P] = tx.installed[P])
      BY <1>1, <1>2 DEF FilesInv, RemovalsKnown
    <3>2. tx.installed[P].tag = Content(o, P).tag \/ tx.installed[P] = Absent
      BY <1>3, <2>6, Tags
    <3>3. lost' \subseteq window'
      BY <1>1, <1>6, <3>1, <3>2 DEF SameBytes
    <3> QED BY <2>2, <3>3 DEF RemovalsKnown
  <2> QED BY <2>7, <2>8, <2>9, <2>10, <2>11, <2>12, <2>13, <2>14 DEF FilesInv
<1> QED BY <1>4, <1>5, <1>6

\* What is put back is what was renamed away.
LEMMA RestoreFiles ==
  ASSUME FilesInv, Held, Restore
  PROVE  FilesInv'
<1>1. tx.pc = "restore" /\ UNCHANGED <<call, window, lost>>
  BY DEF Restore, Running, historyVars
<1>2. PICK P, o : P = Path /\ o = tx.owner
  OBVIOUS
<1>3. /\ o \in Calls /\ tx.i \in 1..Len(PathOrder) /\ P = PathOrder[tx.i] /\ P \in Paths /\ tx.i \in Nat
      /\ tx.i - 1 \in 0..Len(PathOrder) /\ P \in tx.touched
  BY <1>1, <1>2, Places DEF Held, Begun, FilesInv, FilesShape, AtFile, Path, UndoneInOrder
<1>4. \/ /\ UNCHANGED <<files, backup>>
         /\ tx' = [tx EXCEPT !.pc = "undo", !.i = @ - 1, !.failures = @ \cup {Path}]
      \/ /\ tx' = [tx EXCEPT !.pc = "undo", !.i = @ - 1, !.touched = @ \ {P}]
         /\ \/ backup[P] = Absent /\ UNCHANGED <<files, backup>>
            \/ /\ backup[P] # Absent /\ files' = [files EXCEPT ![P] = Touch(backup[P])]
               /\ backup' = [backup EXCEPT ![P] = Absent]
  BY <1>2 DEF Restore, diskVars
<1>5. CASE /\ UNCHANGED <<files, backup>>
           /\ tx' = [tx EXCEPT !.pc = "undo", !.i = @ - 1, !.failures = @ \cup {Path}]
  BY <1>1, <1>5, FailsFiles
<1>6. CASE /\ tx' = [tx EXCEPT !.pc = "undo", !.i = @ - 1, !.touched = @ \ {P}]
           /\ \/ backup[P] = Absent /\ UNCHANGED <<files, backup>>
              \/ /\ backup[P] # Absent /\ files' = [files EXCEPT ![P] = Touch(backup[P])]
                 /\ backup' = [backup EXCEPT ![P] = Absent]
  <2>1. /\ DOMAIN tx = TxFields /\ DOMAIN tx.saved = Paths /\ DOMAIN tx.installed = Paths
        /\ DOMAIN files = Paths /\ DOMAIN backup = Paths /\ tx.touched \subseteq Paths
        /\ \A p \in Paths : "tag" \in DOMAIN files[p] /\ "tag" \in DOMAIN backup[p]
    BY DEF FilesInv, FilesShape
  <2>2. /\ DOMAIN tx' = TxFields /\ tx'.owner = o /\ tx'.base = tx.base /\ tx'.installed = tx.installed
        /\ tx'.touched = tx.touched \ {P} /\ tx'.disturbed = tx.disturbed /\ tx'.saved = tx.saved
        /\ tx'.pc = "undo" /\ tx'.i = tx.i - 1 /\ tx'.failures = tx.failures
    BY <1>2, <1>6, <2>1 DEF TxFields
  <2>3. Begun /\ Begun'
    BY <1>1, <2>2 DEF Begun
  <2>4. PICK v : v = Touch(backup[P])
    OBVIOUS
  <2>5. v.tag = backup[P].tag /\ "tag" \in DOMAIN v
    BY <1>3, <2>1, <2>4, Tags
  <2>6. /\ DOMAIN files' = Paths /\ DOMAIN backup' = Paths /\ backup'[P] = Absent
        /\ \A p \in Paths \ {P} : files'[p] = files[p] /\ backup'[p] = backup[p]
        /\ \/ backup[P] = Absent /\ files'[P] = files[P]
           \/ files'[P] = v
    <3>1. CASE backup[P] = Absent /\ UNCHANGED <<files, backup>>
      BY <2>1, <3>1
    <3>2. CASE files' = [files EXCEPT ![P] = Touch(backup[P])] /\ backup' = [backup EXCEPT ![P] = Absent]
      BY <1>3, <2>1, <2>4, <3>2
    <3> QED BY <1>6, <3>1, <3>2
  <2>7. \A c \in Calls : \A p : Absent.tag # <<c, p>>
    BY Tags
  <2>8. "tag" \in DOMAIN Absent
    BY Tags
  <2>9. /\ \A p \in Paths : tx.installed[p] = Absent \/ tx.installed[p].tag = <<o, p>>
        /\ \A p \in Paths : backup[p].tag # <<o, p>>
        /\ \A p \in Paths : files[p].tag = <<o, p>> => p \in tx.touched
        /\ files[P].tag # <<o, P>>
    BY <1>1, <1>2, <1>3, <2>3 DEF FilesInv, OwnIsKnown
  <2>10. FilesShape'
    BY <1>3, <2>1, <2>2, <2>5, <2>6, <2>8 DEF FilesShape, Undoing, AtFile
  <2>11. BackupsTouched'
    BY <2>2, <2>3, <2>6 DEF FilesInv, BackupsTouched
  <2>12. FreshUnseen'
    <3>1. \A c \in Calls : Fresh(c)' => Fresh(c)
      BY <1>1, <1>2, <2>2, <2>3 DEF Fresh
    <3>2. \A c \in Calls, p \in Paths : Fresh(c) => files[p].tag # <<c, p>> /\ backup[p].tag # <<c, p>>
      BY DEF FilesInv, FreshUnseen
    <3>3. \A c \in Calls : Fresh(c) => files'[P].tag # <<c, P>> /\ backup'[P].tag # <<c, P>>
      BY <1>3, <2>5, <2>6, <2>7, <3>2
    <3> QED BY <2>6, <3>1, <3>2, <3>3 DEF FreshUnseen
  <2>13. OwnIsKnown'
    <3>1. files'[P].tag # <<o, P>> /\ backup'[P].tag # <<o, P>>
      BY <1>3, <2>5, <2>6, <2>7, <2>9
    <3>2. \A p \in Paths : /\ backup'[p].tag # <<o, p>>
                           /\ files'[p].tag = <<o, p>> => p \in tx'.touched
      BY <2>2, <2>6, <2>9, <3>1
    <3> QED BY <2>2, <2>9, <3>2 DEF OwnIsKnown
  <2>14. SavedIsKept'
    <3>1. \A p \in Paths : tx.saved[p] # Absent /\ p \notin tx.disturbed =>
            IF p \in tx.touched THEN backup[p] = tx.saved[p] ELSE SameBytes(files[p], tx.saved[p])
      BY <1>1, <2>3 DEF FilesInv, SavedIsKept
    <3>2. tx.saved[P] # Absent /\ P \notin tx.disturbed => SameBytes(files'[P], tx.saved[P])
      BY <1>3, <2>5, <2>6, <3>1 DEF SameBytes
    <3>3. \A p \in Paths : tx'.saved[p] # Absent /\ p \notin tx'.disturbed =>
            IF p \in tx'.touched THEN backup'[p] = tx'.saved[p] ELSE SameBytes(files'[p], tx'.saved[p])
      BY <2>2, <2>6, <3>1, <3>2
    <3> QED BY <3>3 DEF SavedIsKept
  <2>15. ForwardInOrder'
    BY <2>2 DEF ForwardInOrder, Going
  <2>16. UndoneInOrder'
    <3>1. \A j \in 1..Len(PathOrder) : PathOrder[j] \in tx.touched => PathOrder[j] \in tx.failures \/ j <= tx.i
      BY <1>1 DEF FilesInv, UndoneInOrder, Undoing
    <3>2. \A j \in 1..Len(PathOrder) : PathOrder[j] \in tx'.touched => PathOrder[j] \in tx'.failures \/ j <= tx'.i
      BY <1>3, <2>2, <3>1, Places
    <3> QED BY <2>2, <3>2 DEF UndoneInOrder
  <2>17. RemovalsKnown'
    BY <1>1, <2>2 DEF FilesInv, RemovalsKnown
  <2> QED BY <2>10, <2>11, <2>12, <2>13, <2>14, <2>15, <2>16, <2>17 DEF FilesInv
<1> QED BY <1>4, <1>5, <1>6

LEMMA CleanupFiles ==
  ASSUME FilesInv, Held, Cleanup
  PROVE  FilesInv'
<1>1. /\ tx.pc = "cleanup" /\ UNCHANGED <<files, call, window>> /\ backup' = [p \in Paths |-> Absent]
      /\ tx' = [tx EXCEPT !.pc = "release"]
      /\ lost' = lost \cup {backup[p].tag : p \in {q \in Paths : /\ backup[q] # Absent
                                                                /\ ~ SameBytes(backup[q], tx.base[q])}}
  BY DEF Cleanup, Running
<1>2. PICK o \in Calls : o = tx.owner
  BY <1>1 DEF Held, Begun
<1>3. /\ DOMAIN tx = TxFields /\ DOMAIN tx.saved = Paths /\ DOMAIN tx.installed = Paths /\ DOMAIN files = Paths
      /\ tx.touched \subseteq Paths /\ tx.i \in 0..Len(PathOrder)
      /\ \A p \in Paths : "tag" \in DOMAIN files[p]
  BY DEF FilesInv, FilesShape
<1>4. /\ DOMAIN tx' = TxFields /\ tx'.owner = o /\ tx'.base = tx.base /\ tx'.installed = tx.installed
      /\ tx'.touched = tx.touched /\ tx'.disturbed = tx.disturbed /\ tx'.saved = tx.saved
      /\ tx'.pc = "release" /\ tx'.i = tx.i /\ tx'.why = tx.why
  BY <1>1, <1>2, <1>3 DEF TxFields
<1>5. Begun /\ Begun'
  BY <1>1, <1>4 DEF Begun
<1>6. DOMAIN backup' = Paths /\ \A p \in Paths : backup'[p] = Absent
  BY <1>1
<1>7. \A c \in Calls : \A p : Absent.tag # <<c, p>>
  BY Tags
<1>8. "tag" \in DOMAIN Absent
  BY Tags
<1>9. tx.why # "done" => tx.touched = {}
  BY <1>1 DEF FilesInv, UndoneInOrder
<1>10. FilesShape'
  BY <1>1, <1>3, <1>4, <1>6, <1>8 DEF FilesShape, AtFile
<1>11. BackupsTouched'
  BY <1>6 DEF BackupsTouched
<1>12. FreshUnseen'
  <2>1. \A c \in Calls : Fresh(c)' => Fresh(c)
    BY <1>1, <1>2, <1>4, <1>5 DEF Fresh
  <2>2. \A c \in Calls, p \in Paths : Fresh(c) => files'[p].tag # <<c, p>> /\ backup'[p].tag # <<c, p>>
    BY <1>1, <1>6, <1>7 DEF FilesInv, FreshUnseen
  <2> QED BY <2>1, <2>2 DEF FreshUnseen
<1>13. OwnIsKnown'
  <2>1. /\ \A p \in Paths : tx.installed[p] = Absent \/ tx.installed[p].tag = <<o, p>>
        /\ \A p \in Paths : files[p].tag = <<o, p>> => p \in tx.touched
    BY <1>2, <1>5 DEF FilesInv, OwnIsKnown
  <2>2. \A p \in Paths : backup'[p].tag # <<o, p>>
    BY <1>6, <1>7
  <2> QED BY <1>1, <1>4, <2>1, <2>2 DEF OwnIsKnown
<1>14. SavedIsKept'
  BY <1>1, <1>4, <1>5, <1>9 DEF FilesInv, SavedIsKept
<1>15. ForwardInOrder'
  BY <1>4 DEF ForwardInOrder, Going
<1>16. UndoneInOrder'
  BY <1>4, <1>9 DEF UndoneInOrder, Undoing
<1>17. RemovalsKnown'
  BY <1>1, <1>4 DEF FilesInv, RemovalsKnown
<1> QED BY <1>10, <1>11, <1>12, <1>13, <1>14, <1>15, <1>16, <1>17 DEF FilesInv

\* No transaction: nothing but the files themselves is left to say.
LEMMA NoTxFiles ==
  ASSUME FilesInv, UNCHANGED <<files, lost, window>>, tx' = NoTx, backup' = [p \in Paths |-> Absent],
         \A c \in Calls : Fresh(c)' => Fresh(c)
  PROVE  FilesInv'
<1>1. /\ DOMAIN tx' = TxFields /\ DOMAIN tx'.saved = Paths /\ DOMAIN tx'.installed = Paths /\ tx'.touched = {}
      /\ tx'.pc = "free" /\ tx'.i = 0 /\ \A p \in Paths : tx'.installed[p] = Absent
  BY DEF NoTx, TxFields
<1>2. DOMAIN backup' = Paths /\ \A p \in Paths : backup'[p] = Absent
  OBVIOUS
<1>3. \A c \in Calls : \A p : Absent.tag # <<c, p>>
  BY Tags
<1>4. "tag" \in DOMAIN Absent /\ 0 \in 0..Len(PathOrder)
  BY Tags, Places
<1>5. ~ Begun'
  BY <1>1 DEF Begun
<1>6. FilesShape'
  BY <1>1, <1>2, <1>4 DEF FilesInv, FilesShape, AtFile
<1>7. BackupsTouched'
  BY <1>2 DEF BackupsTouched
<1>8. FreshUnseen'
  <2>1. \A c \in Calls, p \in Paths : Fresh(c) => files'[p].tag # <<c, p>> /\ backup'[p].tag # <<c, p>>
    BY <1>2, <1>3 DEF FilesInv, FreshUnseen
  <2> QED BY <2>1 DEF FreshUnseen
<1>9. OwnIsKnown'
  BY <1>1, <1>5 DEF OwnIsKnown
<1>10. SavedIsKept' /\ ForwardInOrder' /\ UndoneInOrder'
  BY <1>1, <1>5 DEF SavedIsKept, ForwardInOrder, UndoneInOrder, Going, Undoing
<1>11. RemovalsKnown'
  BY <1>1 DEF FilesInv, RemovalsKnown
<1> QED BY <1>6, <1>7, <1>8, <1>9, <1>10, <1>11 DEF FilesInv

LEMMA ReleaseFiles ==
  ASSUME FilesInv, Held, DOMAIN call = Calls, Release
  PROVE  FilesInv'
<1>1. /\ tx.pc = "release" /\ UNCHANGED <<files, lost, window>> /\ tx' = NoTx
      /\ backup' = [p \in Paths |-> Absent]
      /\ call' = [call EXCEPT ![tx.owner].pc = "settle", ![tx.owner].outcome = tx.why]
  BY DEF Release, Running, historyVars
<1>2. PICK o \in Calls : o = tx.owner /\ call[o].pc = "commit"
  BY <1>1 DEF Held, Begun
<1>3. \A c \in Calls \ {o} : call'[c] = call[c]
  BY <1>1, <1>2
<1>4. call'[o].pc \notin {"idle", "lookup", "prepare", "commit"}
  BY <1>1, <1>2
<1>5. \A c \in Calls : Fresh(c)' => Fresh(c)
  BY <1>2, <1>3, <1>4 DEF Fresh
<1> QED BY <1>1, <1>5, NoTxFiles

LEMMA RestartFiles ==
  ASSUME FilesInv, Held, DOMAIN call = Calls, Restart
  PROVE  FilesInv'
<1>1. /\ UNCHANGED <<files, lost, window>> /\ tx' = NoTx /\ backup' = [p \in Paths |-> Absent]
      /\ call' = [c \in Calls |-> IF call[c].pc \in {"idle", "answered"} THEN call[c]
                                  ELSE [call[c] EXCEPT !.pc = "answered", !.outcome = "crashed"]]
  BY DEF Restart, historyVars
<1>2. ASSUME NEW c \in Calls, Fresh(c)' PROVE Fresh(c)
  <2>1. CASE call[c].pc \in {"idle", "answered"}
    <3>1. call'[c] = call[c]
      BY <1>1, <2>1
    <3> QED BY <1>2, <2>1, <3>1 DEF Fresh, Held
  <2>2. CASE call[c].pc \in {"lookup", "prepare"}
    BY <2>2 DEF Fresh, Held
  <2>3. CASE call[c].pc \notin {"idle", "answered", "lookup", "prepare"}
    <3>1. call'[c] = [call[c] EXCEPT !.pc = "answered", !.outcome = "crashed"]
      BY <1>1, <2>3
    <3>2. call'[c].pc = "answered" \/ call'[c].pc = call[c].pc
      BY <3>1
    <3> QED BY <1>2, <2>3, <3>1, <3>2 DEF Fresh
  <2> QED BY <2>1, <2>2, <2>3
<1> QED BY <1>1, <1>2, NoTxFiles

\* Others may write anywhere: what they write is nobody's content, and the
\* transaction no longer answers for what it had renamed away.
LEMMA ExternalFiles ==
  ASSUME FilesInv, Held, NEW P \in Paths, NEW v, "tag" \in DOMAIN v,
         \A c \in Calls : \A p : v.tag # <<c, p>>,
         UNCHANGED <<call, lost>>, window \subseteq window',
         \/ /\ files' = [files EXCEPT ![P] = v] /\ UNCHANGED backup
            /\ v = Absent \/ ~ (tx.pc = "remove" /\ Path = P) \/ v.tag \in window'
         \/ /\ backup' = [backup EXCEPT ![P] = v] /\ UNCHANGED files /\ backup[P] # Absent
            /\ tx.pc = "cleanup" => v.tag \in window',
         \/ tx' = tx /\ tx.saved[P] = Absent
         \/ tx' = [tx EXCEPT !.disturbed = @ \cup {P}]
  PROVE  FilesInv'
<1>1. /\ DOMAIN tx = TxFields /\ DOMAIN tx.saved = Paths /\ DOMAIN tx.installed = Paths
      /\ DOMAIN files = Paths /\ DOMAIN backup = Paths
      /\ \A p \in Paths : "tag" \in DOMAIN files[p] /\ "tag" \in DOMAIN backup[p]
  BY DEF FilesInv, FilesShape
<1>2. /\ DOMAIN tx' = TxFields /\ tx'.owner = tx.owner /\ tx'.pc = tx.pc /\ tx'.i = tx.i /\ tx'.base = tx.base
      /\ tx'.saved = tx.saved /\ tx'.installed = tx.installed /\ tx'.touched = tx.touched
      /\ tx'.failures = tx.failures /\ tx'.why = tx.why
      /\ tx.disturbed \subseteq tx'.disturbed
      /\ tx.saved[P] # Absent => P \in tx'.disturbed
  BY <1>1 DEF TxFields
<1>3. /\ DOMAIN files' = Paths /\ DOMAIN backup' = Paths
      /\ \A p \in Paths \ {P} : files'[p] = files[p] /\ backup'[p] = backup[p]
      /\ files'[P] = files[P] \/ files'[P] = v
      /\ backup'[P] = backup[P] \/ backup'[P] = v
      /\ backup'[P] # Absent => backup[P] # Absent
      /\ tx.pc = "remove" /\ Path = P => \/ files'[P] = files[P]
                                         \/ files'[P] = Absent
                                         \/ files'[P].tag \in window'
      /\ tx.pc = "cleanup" => backup'[P] = backup[P] \/ backup'[P].tag \in window'
  <2>1. CASE /\ files' = [files EXCEPT ![P] = v] /\ UNCHANGED backup
             /\ v = Absent \/ ~ (tx.pc = "remove" /\ Path = P) \/ v.tag \in window'
    BY <1>1, <2>1
  <2>2. CASE /\ backup' = [backup EXCEPT ![P] = v] /\ UNCHANGED files /\ backup[P] # Absent
             /\ tx.pc = "cleanup" => v.tag \in window'
    BY <1>1, <2>2
  <2> QED BY <2>1, <2>2
<1>4. (Begun' <=> Begun) /\ Path' = Path
  BY <1>2 DEF Begun, Path
<1>5. FilesShape'
  BY <1>1, <1>2, <1>3 DEF FilesInv, FilesShape
<1>6. BackupsTouched'
  BY <1>2, <1>3, <1>4 DEF FilesInv, BackupsTouched
<1>7. FreshUnseen'
  <2>1. \A c \in Calls : Fresh(c)' => Fresh(c)
    BY <1>2, <1>4 DEF Fresh
  <2>2. \A c \in Calls, p \in Paths : Fresh(c) => files'[p].tag # <<c, p>> /\ backup'[p].tag # <<c, p>>
    <3>1. \A c \in Calls, p \in Paths : Fresh(c) => files[p].tag # <<c, p>> /\ backup[p].tag # <<c, p>>
      BY DEF FilesInv, FreshUnseen
    <3>2. \A c \in Calls : Fresh(c) => files'[P].tag # <<c, P>> /\ backup'[P].tag # <<c, P>>
      BY <1>3, <3>1
    <3> QED BY <1>3, <3>1, <3>2
  <2> QED BY <2>1, <2>2 DEF FreshUnseen
<1>8. OwnIsKnown'
  <2>1. PICK o : o = tx.owner
    OBVIOUS
  <2>2. \A p \in Paths : tx.installed[p] = Absent \/ tx.installed[p].tag = <<o, p>>
    BY <2>1 DEF FilesInv, OwnIsKnown
  <2>3. ASSUME Begun, NEW p \in Paths
        PROVE  /\ backup'[p].tag # <<o, p>>
               /\ files'[p].tag = <<o, p>> =>
                    /\ p \in tx.touched
                    /\ ~ (tx.pc = "restore" /\ Path = p)
                    /\ tx.pc = "remove" /\ Path = p => tx.installed[p] # Absent
    <3>1. /\ backup[p].tag # <<o, p>>
          /\ files[p].tag = <<o, p>> =>
               /\ p \in tx.touched
               /\ ~ (tx.pc = "restore" /\ Path = p)
               /\ tx.pc = "remove" /\ Path = p => tx.installed[p] # Absent
      BY <2>1, <2>3 DEF FilesInv, OwnIsKnown
    <3>2. v.tag # <<o, p>>
      BY <2>1, <2>3 DEF Held
    <3>3. files'[p] = files[p] \/ files'[p].tag # <<o, p>>
      BY <1>3, <3>2
    <3>4. backup'[p] = backup[p] \/ backup'[p].tag # <<o, p>>
      BY <1>3, <3>2
    <3> QED BY <3>1, <3>3, <3>4
  <2> QED BY <1>2, <1>4, <2>1, <2>2, <2>3 DEF OwnIsKnown
<1>9. SavedIsKept'
  BY <1>2, <1>3, <1>4 DEF FilesInv, SavedIsKept
<1>10. ForwardInOrder' /\ UndoneInOrder'
  BY <1>2, <1>4 DEF FilesInv, ForwardInOrder, UndoneInOrder
<1>11. RemovalsKnown'
  <2>1. lost' \subseteq window'
    BY DEF FilesInv, RemovalsKnown
  <2>2. CASE tx.pc = "remove"
    <3>1. Path \in Paths
      BY <2>2, Places DEF FilesInv, FilesShape, AtFile, Path
    <3>2. files[Path] = Absent \/ files[Path].tag \in window \/ files[Path] = tx.installed[Path]
      BY <2>2 DEF FilesInv, RemovalsKnown
    <3>3. files'[Path] = Absent \/ files'[Path].tag \in window' \/ files'[Path] = tx.installed[Path]
      BY <1>3, <2>2, <3>1, <3>2
    <3> QED BY <1>2, <1>4, <2>1, <2>2, <3>3 DEF RemovalsKnown
  <2>3. CASE tx.pc = "cleanup"
    <3>1. \A p \in Paths : \/ backup[p] = Absent \/ backup[p].tag \in window
                           \/ SameBytes(backup[p], tx.base[p])
      BY <2>3 DEF FilesInv, RemovalsKnown
    <3>2. \A p \in Paths : \/ backup'[p] = Absent \/ backup'[p].tag \in window'
                           \/ SameBytes(backup'[p], tx'.base[p])
      BY <1>2, <1>3, <2>3, <3>1
    <3> QED BY <1>2, <2>1, <2>3, <3>2 DEF RemovalsKnown
  <2>4. CASE tx.pc \notin {"remove", "cleanup"}
    BY <1>2, <2>1, <2>4 DEF RemovalsKnown
  <2> QED BY <2>2, <2>3, <2>4
<1> QED BY <1>5, <1>6, <1>7, <1>8, <1>9, <1>10, <1>11 DEF FilesInv

LEMMA WriteFiles ==
  ASSUME FilesInv, Held, NEW p \in Paths, ExternalWrite(p) \/ ExternalBackupWrite(p)
  PROVE  FilesInv'
<1>1. PICK w : w = [tag |-> <<"external", external>>, ct |-> 0]
  OBVIOUS
<1>2. /\ "tag" \in DOMAIN w /\ w.tag = <<"external", external>>
      /\ \A c \in Calls : \A q : w.tag # <<c, q>>
  BY <1>1, Tags
<1>3. "tag" \in DOMAIN Absent /\ \A c \in Calls : \A q : Absent.tag # <<c, q>>
  BY Tags
<1>4. CASE ExternalWrite(p)
  <2>1. PICK v \in {Absent, w} :
          /\ files' = [files EXCEPT ![p] = v]
          /\ window' = IF v # Absent /\ tx.pc = "remove" /\ Path = p THEN window \cup {v.tag} ELSE window
          /\ tx' = IF tx.saved[p] # Absent THEN [tx EXCEPT !.disturbed = @ \cup {p}] ELSE tx
    BY <1>1, <1>4 DEF ExternalWrite, Running
  <2>2. UNCHANGED <<backup, call, lost>>
    BY <1>4 DEF ExternalWrite
  <2>3. "tag" \in DOMAIN v /\ \A c \in Calls : \A q : v.tag # <<c, q>>
    BY <1>2, <1>3
  <2>4. /\ window \subseteq window'
        /\ v = Absent \/ ~ (tx.pc = "remove" /\ Path = p) \/ v.tag \in window'
        /\ \/ tx' = tx /\ tx.saved[p] = Absent
           \/ tx' = [tx EXCEPT !.disturbed = @ \cup {p}]
    BY <2>1
  <2> QED BY <2>1, <2>2, <2>3, <2>4, ExternalFiles
<1>5. CASE ExternalBackupWrite(p)
  <2>1. /\ backup' = [backup EXCEPT ![p] = w] /\ backup[p] # Absent
        /\ window' = IF tx.pc = "cleanup" THEN window \cup {w.tag} ELSE window
        /\ tx' = [tx EXCEPT !.disturbed = @ \cup {p}] /\ UNCHANGED <<files, call, lost>>
    BY <1>1, <1>5 DEF ExternalBackupWrite, Running
  <2>2. window \subseteq window' /\ (tx.pc = "cleanup" => w.tag \in window')
    BY <2>1
  <2> QED BY <1>2, <2>1, <2>2, ExternalFiles
<1> QED BY <1>4, <1>5

\* Steps of a call that does not hold the lock.
LEMMA CallFiles ==
  ASSUME FilesInv, Held, UNCHANGED <<files, backup, tx, lost, window>>, NEW c \in Calls,
         \A d \in Calls \ {c} : call'[d] = call[d],
         call[c].pc \in {"idle", "lookup", "prepare"} \/ call'[c].pc \in {"settle", "answered"}
  PROVE  FilesInv'
<1>1. \A d \in Calls : Fresh(d)' => Fresh(d)
  BY DEF Fresh, Held, Begun
<1>2. FreshUnseen'
  BY <1>1 DEF FilesInv, FreshUnseen
<1>3. /\ FilesShape' /\ BackupsTouched' /\ OwnIsKnown' /\ SavedIsKept' /\ ForwardInOrder' /\ UndoneInOrder'
      /\ RemovalsKnown'
  BY DEF FilesInv, FilesShape, BackupsTouched, OwnIsKnown, SavedIsKept, ForwardInOrder, UndoneInOrder,
     RemovalsKnown, Begun, Path
<1> QED BY <1>2, <1>3 DEF FilesInv

LEMMA CallerFiles ==
  ASSUME FilesInv, Held, DOMAIN call = Calls, NEW c \in Calls,
         \/ Arrive(c) \/ \E d \in Calls \ {c} : Repeat(c, d)
         \/ LookupKnown(c) \/ LookupNew(c) \/ Settle(c) \/ PrepareChanges(c) \/ PreparePatch(c)
  PROVE  FilesInv'
<1>1. UNCHANGED <<files, backup, tx, lost, window>>
  BY DEF Arrive, Repeat, LookupKnown, LookupNew, Settle, PrepareChanges, PreparePatch, diskVars, historyVars
<1>2. call[c].pc \in {"idle", "lookup", "prepare"} \/ call'[c].pc \in {"settle", "answered"}
  <2>1. CASE Settle(c)
    <3>1. call[c].pc = "settle" /\ call' = [call EXCEPT ![c].pc = "answered"]
      BY <2>1 DEF Settle
    <3>2. call'[c] = [call[c] EXCEPT !.pc = "answered"]
      BY <3>1
    <3>3. call'[c].pc \in {"settle", "answered"}
      BY <3>1, <3>2
    <3> QED BY <3>3
  <2>2. CASE \/ Arrive(c) \/ \E d \in Calls \ {c} : Repeat(c, d)
             \/ LookupKnown(c) \/ LookupNew(c) \/ PrepareChanges(c) \/ PreparePatch(c)
    BY <2>2 DEF Arrive, Repeat, LookupKnown, LookupNew, PrepareChanges, PreparePatch
  <2> QED BY <2>1, <2>2
<1>3. \A d \in Calls \ {c} : call'[d] = call[d]
  <2>1. \A d \in Calls \ {c} : \A outcome : Answered(c, outcome)[d] = call[d]
    BY DEF Answered
  <2>2. \A d \in Calls \ {c} : \A why : Raised(c, why)[d] = call[d] /\ Prepared(c)[d] = call[d]
    BY DEF Raised, Prepared
  <2> QED BY <2>1, <2>2 DEF Arrive, Repeat, LookupKnown, LookupNew, Settle, PrepareChanges, PreparePatch
<1> QED BY <1>1, <1>2, <1>3, CallFiles

LEMMA FilesStart == WritesInit => FilesInv
<1> SUFFICES ASSUME WritesInit PROVE FilesInv
  OBVIOUS
<1>1. PICK present \in PresentAtStart : files = [p \in Paths |-> IF p \in present THEN Old(p) ELSE Absent]
  BY DEF WritesInit
<1>2. /\ backup = [p \in Paths |-> Absent] /\ tx = NoTx /\ lost = {} /\ window = {}
      /\ \A c \in Calls : call[c].pc = "idle"
  BY DEF WritesInit, NoCall
<1>3. /\ DOMAIN tx = TxFields /\ DOMAIN tx.saved = Paths /\ DOMAIN tx.installed = Paths /\ tx.touched = {}
      /\ tx.pc = "free" /\ tx.i = 0 /\ \A p \in Paths : tx.installed[p] = Absent
  BY <1>2 DEF NoTx, TxFields
<1>4. \A p \in Paths : files[p] = Old(p) \/ files[p] = Absent
  BY <1>1
<1>5. DOMAIN files = Paths /\ DOMAIN backup = Paths /\ \A p \in Paths : backup[p] = Absent
  BY <1>1, <1>2
<1>6. "tag" \in DOMAIN Absent /\ 0 \in 0..Len(PathOrder) /\ \A p \in Paths : "tag" \in DOMAIN Old(p)
  BY Tags, Places
<1>7. ~ Begun
  BY <1>3 DEF Begun
<1>8. FilesShape
  BY <1>3, <1>4, <1>5, <1>6 DEF FilesShape, AtFile
<1>9. FreshUnseen
  <2>1. ASSUME NEW c \in Calls, NEW p \in Paths PROVE files[p].tag # <<c, p>> /\ backup[p].tag # <<c, p>>
    <3>1. Absent.tag # <<c, p>> /\ Old(p).tag # <<c, p>>
      BY Tags
    <3> QED BY <1>4, <1>5, <3>1
  <2> QED BY <2>1 DEF FreshUnseen
<1>10. BackupsTouched /\ OwnIsKnown /\ SavedIsKept /\ ForwardInOrder /\ UndoneInOrder /\ RemovalsKnown
  BY <1>2, <1>3, <1>5, <1>7 DEF BackupsTouched, OwnIsKnown, SavedIsKept, ForwardInOrder, UndoneInOrder, RemovalsKnown,
     Going, Undoing
<1> QED BY <1>8, <1>9, <1>10 DEF FilesInv

LEMMA FilesKeep == WritesInv /\ FilesInv /\ [WritesNext]_writesVars => FilesInv'
<1> SUFFICES ASSUME WritesInv, FilesInv, [WritesNext]_writesVars PROVE FilesInv'
  OBVIOUS
<1>1. Held /\ DOMAIN call = Calls
  BY HeldHolds DEF WritesInv, WritesShape
<1>2. ASSUME NEW c \in Calls,
             \/ Arrive(c) \/ \E d \in Calls \ {c} : Repeat(c, d)
             \/ LookupKnown(c) \/ LookupNew(c) \/ Settle(c) \/ PrepareChanges(c) \/ PreparePatch(c)
      PROVE  FilesInv'
  BY <1>1, <1>2, CallerFiles
<1>3. ASSUME NEW c \in Calls, Acquire(c) PROVE FilesInv'
  BY <1>3, AcquireFiles
<1>4. CASE Stage \/ CheckItem \/ BackUp \/ Install \/ Confirm \/ FinalCheck
  BY <1>1, <1>4, StageFiles, CheckFiles, BackUpFiles, InstallFiles, ConfirmFiles, FinalFiles
<1>5. CASE Undo \/ RemoveInstalled \/ Restore \/ Cleanup \/ Release
  BY <1>1, <1>5, UndoFiles, RemoveFiles, RestoreFiles, CleanupFiles, ReleaseFiles
<1>6. ASSUME NEW p \in Paths, ExternalWrite(p) \/ ExternalBackupWrite(p) PROVE FilesInv'
  BY <1>1, <1>6, WriteFiles
<1>7. CASE Restart
  BY <1>1, <1>7, RestartFiles
<1>8. CASE UNCHANGED writesVars
  BY <1>8 DEF writesVars, FilesInv, FilesShape, BackupsTouched, FreshUnseen, Fresh, OwnIsKnown, SavedIsKept,
     ForwardInOrder, UndoneInOrder, RemovalsKnown, Begun, Path
<1> QED BY <1>2, <1>3, <1>4, <1>5, <1>6, <1>7, <1>8 DEF WritesNext, ServerStep

LEMMA FilesInvSafe == FilesInv => FilesAreSafe
<1> SUFFICES ASSUME FilesInv PROVE FilesAreSafe
  OBVIOUS
<1>1. OnlyRemovesWhatItKnows
  BY DEF FilesInv, RemovalsKnown, OnlyRemovesWhatItKnows
<1>2. ASSUME tx.pc = "release", tx.why # "done", NEW p \in Changed(tx.owner)
      PROVE  /\ tx.why # "rollback_failed" => ~ SameBytes(files[p], Content(tx.owner, p))
             /\ tx.saved[p] # Absent /\ p \notin tx.disturbed =>
                  \/ SameBytes(files[p], tx.saved[p])
                  \/ tx.why = "rollback_failed" /\ SameBytes(backup[p], tx.saved[p])
  <2>1. p \in Paths /\ Begun
    BY <1>2 DEF Changed, Begun
  <2>2. tx.why # "rollback_failed" => tx.touched = {}
    BY <1>2 DEF FilesInv, UndoneInOrder
  <2>3. files[p].tag = <<tx.owner, p>> => p \in tx.touched
    BY <2>1 DEF FilesInv, OwnIsKnown
  <2>4. tx.saved[p] # Absent /\ p \notin tx.disturbed =>
          IF p \in tx.touched THEN backup[p] = tx.saved[p] ELSE SameBytes(files[p], tx.saved[p])
    BY <1>2, <2>1 DEF FilesInv, SavedIsKept
  <2>5. Content(tx.owner, p).tag = <<tx.owner, p>>
    BY DEF Content
  <2> QED BY <2>2, <2>3, <2>4, <2>5 DEF SameBytes
<1>3. FailureRestoresOrPreserves
  BY <1>2 DEF FailureRestoresOrPreserves, Running
<1> QED BY <1>1, <1>3 DEF FilesAreSafe

\* For any requests, files and number of calls, whatever other programs write
\* and wherever the process stops: a transaction destroys nothing it does not
\* know, and a call that fails is undone or keeps all it moved
\* (native_changes.py, _WorkspaceTransaction).
THEOREM NothingIsLost == WritesSpec => []FilesAreSafe
<1>1. WritesInit => FilesInv
  BY FilesStart
<1>2. WritesInv /\ FilesInv /\ [WritesNext]_writesVars => FilesInv'
  BY FilesKeep
<1>3. FilesInv => FilesAreSafe
  BY FilesInvSafe
<1> QED BY <1>1, <1>2, <1>3, WritesKeep, PTL DEF WritesSpec

=============================================================================
