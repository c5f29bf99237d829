--------------------------- MODULE BatchItemsProofs ---------------------------
(* Theorems about BatchItems, for every value of its constants: any number *)
(* of items, images, workers and requests, any mix of endpoints.           *)
EXTENDS BatchItems, FiniteSetTheorems, WellFoundedInduction, TLAPS

USE NumItemsAssumption, ImageOfAssumption, NobodyAssumption, RequestKindsAssumption,
    BoundsAssumption
USE DEF batchVars, problemVars, bounds

-----------------------------------------------------------------------------
(* The inductive invariant: types and the shape of local variables *)

\* The places in a submission where it works on one reserved item.
Creating == {"renew", "lookup", "guard", "insert", "enqueue", "confirm"}

\* A request has items reserved only while it submits, an outcome only for those,
\* works on one that has none yet, and holds a problem only between finding or
\* inserting it and concluding its item.
GoodRequest(l) ==
    /\ l.pc = "reserve" => l.todo # {}
    /\ l.pc \notin Creating \union {"reserve", "complete"} => l.reserved = {}
    /\ \A i \in Items : l.outcome[i] # "none" => i \in l.reserved
    /\ l.pc \in Creating => l.item \in l.reserved /\ l.outcome[l.item] = "none"
    /\ l.pc \in {"enqueue", "confirm"} => l.found # NoRequest
    /\ l.pc \notin {"guard", "enqueue", "confirm"} => l.found = NoRequest

\* A lease has a holder and a reservation a token; a submitted item names its
\* problem, is reserved no more, and is never what an undo restores.
GoodItem(x) ==
    /\ x.holder = NoWorker <=> x.lease = "none"
    /\ x.token = NoRequest <=> x.reservation = "none"
    /\ x.status = "submitted" => x.problem # NoRequest /\ x.token = NoRequest
    /\ x.previousStatus # "submitted"

Typed ==
    /\ TypeOK
    /\ \A w \in Workers : worker[w].pc = "claim" => worker[w].todo # {}
    /\ \A r \in Requests : GoodRequest(req[r])
    /\ \A i \in Items : GoodItem(item[i])

LEMMA SmallestItem ==
  ASSUME NEW S \in SUBSET Items, S # {}
  PROVE  Min(S) \in S
<1>1. S \subseteq Nat
  BY DEF Items
<1>2. PICK x \in S : \A y \in S : ~ (<<y, x>> \in OpToRel(<, Nat))
  BY <1>1, NatLessThanWellFounded, WFMin
<1>3. \A y \in S : x =< y
  <2> TAKE y \in S
  <2>1. ~ (y < x)
    BY <1>1, <1>2 DEF OpToRel
  <2> QED BY <1>1, <2>1
<1> QED BY <1>3 DEF Min

LEMMA InitialValues ==
  /\ 1 \in Items
  /\ IdleRequest \in RequestLocals /\ GoodRequest(IdleRequest)
  /\ IdleRequest.pc = "idle" /\ IdleRequest.reserved = {}
  /\ IdleWorker \in WorkerLocals /\ IdleWorker.pc = "idle"
  /\ DeadWorker \in WorkerLocals /\ DeadWorker.pc = "dead"
  /\ build_item_document \in ItemRecords /\ GoodItem(build_item_document)
<1>1. 1 \in Items
  BY DEF Items
<1>2. /\ [i \in Items |-> "empty"] \in [Items -> Drafts]
      /\ [i \in Items |-> "none"] \in [Items -> Outcomes]
      /\ NoRequest \in ProblemIds
  BY DEF Drafts, Outcomes, ProblemIds
<1>3. IdleRequest \in RequestLocals
  BY <1>1, <1>2 DEF IdleRequest, RequestLocals, RequestPcs
<1>4. GoodRequest(IdleRequest)
  BY DEF IdleRequest, GoodRequest, Creating
<1>5. IdleRequest.pc = "idle" /\ IdleRequest.reserved = {}
  BY DEF IdleRequest
<1>6. /\ IdleWorker \in WorkerLocals /\ IdleWorker.pc = "idle"
      /\ DeadWorker \in WorkerLocals /\ DeadWorker.pc = "dead"
  BY <1>1 DEF IdleWorker, DeadWorker, WorkerLocals
<1>7. build_item_document \in ItemRecords
  BY <1>2 DEF build_item_document, ItemRecords, ItemState, Drafts, Deadlines
<1>8. GoodItem(build_item_document)
  BY DEF build_item_document, GoodItem
<1> QED BY <1>1, <1>3, <1>4, <1>5, <1>6, <1>7, <1>8

-----------------------------------------------------------------------------
(* The locals of a request *)

\* Moving on to the next reserved item.
LEMMA NextItemLocals ==
  ASSUME NEW l \in RequestLocals, l.found = NoRequest,
         \A i \in Items : l.outcome[i] # "none" => i \in l.reserved
  PROVE  /\ NextItem(l) \in RequestLocals /\ GoodRequest(NextItem(l))
         /\ NextItem(l).pc \in {"renew", "complete"}
         /\ NextItem(l).reserved = l.reserved
         /\ NextItem(l).outcome = l.outcome
         /\ NextItem(l).found = NoRequest
<1> DEFINE rest == {i \in l.reserved : l.outcome[i] = "none"}
<1>1. l.reserved \subseteq Items /\ rest \subseteq Items
  BY DEF RequestLocals
<1>2. rest # {} => Min(rest) \in rest
  BY <1>1, SmallestItem
<1> HIDE DEF rest
<1>3. NextItem(l) = IF rest = {} THEN [l EXCEPT !.pc = "complete"]
                    ELSE [l EXCEPT !.pc = "renew", !.item = Min(rest)]
  BY DEF NextItem, rest
<1>4. CASE rest = {}
  <2>1. NextItem(l) = [l EXCEPT !.pc = "complete"]
    BY <1>3, <1>4
  <2>2. NextItem(l) \in RequestLocals
    BY <2>1 DEF RequestLocals, RequestPcs
  <2>3. /\ NextItem(l).pc = "complete" /\ NextItem(l).reserved = l.reserved
        /\ NextItem(l).outcome = l.outcome /\ NextItem(l).found = NoRequest
    BY <2>1 DEF RequestLocals
  <2> QED BY <2>2, <2>3 DEF GoodRequest, Creating
<1>5. CASE rest # {}
  <2>1. NextItem(l) = [l EXCEPT !.pc = "renew", !.item = Min(rest)]
    BY <1>3, <1>5
  <2>2. Min(rest) \in Items /\ Min(rest) \in l.reserved /\ l.outcome[Min(rest)] = "none"
    BY <1>1, <1>2, <1>5 DEF rest
  <2>3. NextItem(l) \in RequestLocals
    BY <2>1, <2>2 DEF RequestLocals, RequestPcs
  <2>4. /\ NextItem(l).pc = "renew" /\ NextItem(l).reserved = l.reserved
        /\ NextItem(l).outcome = l.outcome /\ NextItem(l).found = NoRequest
        /\ NextItem(l).item = Min(rest)
    BY <2>1 DEF RequestLocals
  <2> QED BY <2>2, <2>3, <2>4 DEF GoodRequest, Creating
<1> QED BY <1>4, <1>5

\* The check of the drafts.
LEMMA CheckedLocals ==
  ASSUME NEW l \in RequestLocals, l.found = NoRequest,
         \A i \in Items : l.outcome[i] # "none" => i \in l.reserved
  PROVE  /\ CheckDrafts(l) \in RequestLocals /\ GoodRequest(CheckDrafts(l))
         /\ CheckDrafts(l).pc \in {"renew", "complete"}
         /\ CheckDrafts(l).reserved = l.reserved
         /\ CheckDrafts(l).found = NoRequest
         /\ \A i \in Items : CheckDrafts(l).outcome[i] \in {l.outcome[i], "none", "failed"}
<1> DEFINE bad == {i \in l.reserved : l.draft[i] = "non-compliant"}
           failed == [i \in Items |-> IF i \in bad THEN "failed" ELSE "none"]
<1>1. CASE bad = {}
  BY <1>1, NextItemLocals DEF CheckDrafts
<1>2. CASE bad # {}
  <2>1. failed \in [Items -> Outcomes]
    BY DEF Outcomes
  <2>2. \A i \in Items : failed[i] # "none" => i \in l.reserved
    OBVIOUS
  <2>3. \A i \in Items : failed[i] \in {"none", "failed"}
    OBVIOUS
  <2>4. CheckDrafts(l) = [l EXCEPT !.pc = "complete", !.outcome = failed]
    BY <1>2 DEF CheckDrafts
  <2> HIDE DEF bad, failed
  <2>5. CheckDrafts(l) \in RequestLocals
    BY <2>1, <2>4 DEF RequestLocals, RequestPcs
  <2>6. /\ CheckDrafts(l).pc = "complete" /\ CheckDrafts(l).reserved = l.reserved
        /\ CheckDrafts(l).outcome = failed /\ CheckDrafts(l).found = NoRequest
    BY <2>4 DEF RequestLocals
  <2> QED BY <2>2, <2>3, <2>5, <2>6 DEF GoodRequest, Creating
<1> QED BY <1>1, <1>2

\* A request that stores new locals.
LEMMA RequestMoves ==
  ASSUME Typed, NEW r \in Requests, NEW l \in RequestLocals, GoodRequest(l),
         req' = [req EXCEPT ![r] = l]
  PROVE  /\ req' \in [Requests -> RequestLocals] /\ \A q \in Requests : GoodRequest(req'[q])
         /\ req'[r] = l /\ \A q \in Requests \ {r} : req'[q] = req[q]
  BY DEF Typed, TypeOK

LEMMA FinishMoves ==
  ASSUME Typed, NEW r \in Requests, Finish(r)
  PROVE  /\ req' \in [Requests -> RequestLocals] /\ \A q \in Requests : GoodRequest(req'[q])
         /\ req'[r].pc = "done" /\ req'[r].reserved = {}
         /\ \A q \in Requests \ {r} : req'[q] = req[q]
<1> DEFINE l == [IdleRequest EXCEPT !.pc = "done"]
<1>1. l \in RequestLocals /\ l.pc = "done" /\ l.reserved = {}
  BY InitialValues DEF RequestLocals, RequestPcs
<1>2. GoodRequest(l)
  BY InitialValues DEF RequestLocals, GoodRequest, Creating
<1>3. req' = [req EXCEPT ![r] = l]
  BY DEF Finish
<1> HIDE DEF l
<1> QED BY <1>1, <1>2, <1>3, RequestMoves

LEMMA GotoMoves ==
  ASSUME Typed, NEW r \in Requests, NEW pc \in Creating, Goto(r, pc), req[r].pc \in Creating,
         pc \in {"enqueue", "confirm"} => req[r].found # NoRequest,
         pc \notin {"guard", "enqueue", "confirm"} => req[r].found = NoRequest
  PROVE  /\ req' \in [Requests -> RequestLocals] /\ \A q \in Requests : GoodRequest(req'[q])
         /\ req'[r].pc = pc /\ req'[r].item = req[r].item /\ req'[r].reserved = req[r].reserved
         /\ req'[r].outcome = req[r].outcome /\ req'[r].found = req[r].found
         /\ \A q \in Requests \ {r} : req'[q] = req[q]
<1> DEFINE l == [req[r] EXCEPT !.pc = pc]
<1>1. req[r] \in RequestLocals /\ GoodRequest(req[r])
  BY DEF Typed, TypeOK
<1>2. /\ l \in RequestLocals
      /\ l.pc = pc /\ l.item = req[r].item /\ l.reserved = req[r].reserved
      /\ l.outcome = req[r].outcome /\ l.found = req[r].found
  BY <1>1 DEF RequestLocals, RequestPcs, Creating
<1>3. req' = [req EXCEPT ![r] = l]
  BY DEF Goto
<1> HIDE DEF l
<1>4. GoodRequest(l)
  BY <1>1, <1>2 DEF GoodRequest, Creating
<1> QED BY <1>2, <1>3, <1>4, RequestMoves

LEMMA ConcludeMoves ==
  ASSUME Typed, NEW r \in Requests, NEW o \in Outcomes, Conclude(r, o), req[r].pc \in Creating
  PROVE  /\ req' \in [Requests -> RequestLocals] /\ \A q \in Requests : GoodRequest(req'[q])
         /\ req'[r].pc \in {"renew", "complete"} /\ req'[r].reserved = req[r].reserved
         /\ req'[r].found = NoRequest
         /\ \A i \in Items :
               req'[r].outcome[i] = IF i = req[r].item THEN o ELSE req[r].outcome[i]
         /\ \A q \in Requests \ {r} : req'[q] = req[q]
<1> DEFINE outcome == [req[r].outcome EXCEPT ![req[r].item] = o]
           l == [req[r] EXCEPT !.found = NoRequest, !.outcome = outcome]
<1>1. req[r] \in RequestLocals /\ GoodRequest(req[r])
  BY DEF Typed, TypeOK
<1>2. req[r].outcome \in [Items -> Outcomes] /\ req[r].item \in Items
  BY <1>1 DEF RequestLocals
<1>3. /\ outcome \in [Items -> Outcomes]
      /\ \A i \in Items : outcome[i] = IF i = req[r].item THEN o ELSE req[r].outcome[i]
  BY <1>2
<1>4. Conclude(r, o) => req' = [req EXCEPT ![r] = NextItem(l)]
  BY DEF Conclude
<1> HIDE DEF outcome
<1>5. /\ l \in RequestLocals /\ l.found = NoRequest
      /\ l.reserved = req[r].reserved /\ l.outcome = outcome
  BY <1>1, <1>3 DEF RequestLocals, ProblemIds
<1> HIDE DEF l
<1>6. \A i \in Items : l.outcome[i] # "none" => i \in l.reserved
  BY <1>1, <1>3, <1>5 DEF GoodRequest
<1>7. /\ NextItem(l) \in RequestLocals /\ GoodRequest(NextItem(l))
      /\ NextItem(l).pc \in {"renew", "complete"} /\ NextItem(l).reserved = req[r].reserved
      /\ NextItem(l).outcome = outcome /\ NextItem(l).found = NoRequest
  BY <1>5, <1>6, NextItemLocals
<1>8. req' = [req EXCEPT ![r] = NextItem(l)]
  BY <1>4
<1>9. /\ req' \in [Requests -> RequestLocals] /\ \A q \in Requests : GoodRequest(req'[q])
      /\ req'[r] = NextItem(l) /\ \A q \in Requests \ {r} : req'[q] = req[q]
  BY <1>7, <1>8, RequestMoves
<1> QED BY <1>3, <1>7, <1>9

\* The reservation of one candidate.
LEMMA ReserveMoves ==
  ASSUME Typed, NEW r \in Requests, Reserve(r)
  PROVE  /\ req' \in [Requests -> RequestLocals] /\ \A q \in Requests : GoodRequest(req'[q])
         /\ Min(req[r].todo) \in Items
         /\ req'[r].pc \in {"reserve", "renew", "complete"} /\ req'[r].found = NoRequest
         /\ \A i \in req'[r].reserved : \/ i \in req[r].reserved
                                        \/ i = Min(req[r].todo) /\ Reservable(i)
         /\ \A i \in Items : req'[r].outcome[i] \in {req[r].outcome[i], "none", "failed"}
         /\ \A q \in Requests \ {r} : req'[q] = req[q]
<1>1. req[r] \in RequestLocals /\ GoodRequest(req[r]) /\ req[r].pc = "reserve"
  BY DEF Typed, TypeOK, Reserve
<1>2. /\ req[r].todo \subseteq Items /\ req[r].reserved \subseteq Items
      /\ req[r].found = NoRequest
      /\ \A i \in Items : req[r].outcome[i] # "none" => i \in req[r].reserved
  BY <1>1 DEF RequestLocals, GoodRequest
<1>3. Min(req[r].todo) \in Items
  BY <1>1, <1>2, SmallestItem DEF GoodRequest
<1> DEFINE i == Min(req[r].todo)
           rest == req[r].todo \ {i}
           reserved == IF Reservable(i) THEN req[r].reserved \union {i} ELSE req[r].reserved
           locals == [req[r] EXCEPT !.todo = rest, !.reserved = reserved]
           new == IF rest = {} THEN CheckDrafts(locals) ELSE locals
<1>4. req' = [req EXCEPT ![r] = new]
  BY DEF Reserve
<1>5. /\ reserved \subseteq Items /\ rest \subseteq Items /\ req[r].reserved \subseteq reserved
      /\ \A j \in reserved : j \in req[r].reserved \/ (j = Min(req[r].todo) /\ Reservable(j))
  BY <1>2, <1>3
<1> HIDE DEF reserved, rest, i
<1>6. /\ locals \in RequestLocals /\ locals.pc = "reserve" /\ locals.todo = rest
      /\ locals.found = NoRequest /\ locals.reserved = reserved
      /\ locals.outcome = req[r].outcome
  BY <1>1, <1>2, <1>5 DEF RequestLocals
<1> HIDE DEF locals
<1>7. \A j \in Items : locals.outcome[j] # "none" => j \in locals.reserved
  BY <1>2, <1>5, <1>6
<1>8. /\ new \in RequestLocals /\ GoodRequest(new)
      /\ new.pc \in {"reserve", "renew", "complete"} /\ new.found = NoRequest
      /\ new.reserved = reserved
      /\ \A j \in Items : new.outcome[j] \in {req[r].outcome[j], "none", "failed"}
  <2>1. CASE rest = {}
    BY <1>6, <1>7, <2>1, CheckedLocals
  <2>2. CASE rest # {}
    <3>1. GoodRequest(locals)
      BY <1>6, <1>7, <2>2 DEF GoodRequest, Creating
    <3> QED BY <1>6, <2>2, <3>1
  <2> QED BY <2>1, <2>2
<1> HIDE DEF new
<1>9. /\ req' \in [Requests -> RequestLocals] /\ \A q \in Requests : GoodRequest(req'[q])
      /\ req'[r] = new /\ \A q \in Requests \ {r} : req'[q] = req[q]
  BY <1>4, <1>8, RequestMoves
<1> QED BY <1>3, <1>5, <1>8, <1>9

\* The first step of a request.
LEMMA BeginMoves ==
  ASSUME Typed, NEW r \in Requests, ReviewBegin(r) \/ SubmitRead(r)
  PROVE  /\ req' \in [Requests -> RequestLocals] /\ \A q \in Requests : GoodRequest(req'[q])
         /\ req'[r].reserved = {} /\ req'[r].found = NoRequest
         /\ req'[r].pc \notin Creating
         /\ \A i \in Items : req'[r].outcome[i] = "none"
         /\ \A q \in Requests \ {r} : req'[q] = req[q]
<1>0. /\ IdleRequest.found = NoRequest /\ IdleRequest.todo = {}
      /\ \A i \in Items : IdleRequest.outcome[i] = "none"
  BY DEF IdleRequest
<1>1. PICK l : /\ req' = [req EXCEPT ![r] = l] /\ l \in RequestLocals /\ GoodRequest(l)
               /\ l.reserved = {} /\ l.found = NoRequest /\ l.pc \notin Creating
               /\ \A i \in Items : l.outcome[i] = "none"
  <2>1. CASE ReviewBegin(r)
    <3>1. PICK kind \in Kinds \ {"submit"}, i \in Items :
             req' = [req EXCEPT ![r] = [IdleRequest EXCEPT !.pc = kind, !.item = i]]
      BY <2>1 DEF ReviewBegin, Begin
    <3> DEFINE l == [IdleRequest EXCEPT !.pc = kind, !.item = i]
    <3>2. /\ l \in RequestLocals /\ l.pc = kind /\ l.reserved = {} /\ l.found = NoRequest
          /\ l.outcome = IdleRequest.outcome
      BY <1>0, InitialValues DEF RequestLocals, RequestPcs
    <3>3. kind \notin Creating \union {"reserve", "complete"}
      BY DEF Kinds, Creating
    <3> HIDE DEF l
    <3>4. GoodRequest(l)
      BY <1>0, <3>2, <3>3 DEF GoodRequest, Creating
    <3>5. req' = [req EXCEPT ![r] = l]
      BY <3>1 DEF l
    <3> QED BY <1>0, <3>2, <3>3, <3>4, <3>5
  <2>2. CASE SubmitRead(r)
    <3> DEFINE candidates == {i \in Items : item[i].status = "ready"}
               draft == [i \in Items |-> IF i \in candidates THEN item[i].draft ELSE "empty"]
               locals == [IdleRequest EXCEPT !.todo = candidates, !.draft = draft]
               l == IF candidates = {} THEN [locals EXCEPT !.pc = "complete"]
                    ELSE [locals EXCEPT !.pc = "reserve"]
    <3>1. req' = [req EXCEPT ![r] = l]
      BY <2>2 DEF SubmitRead, Begin
    <3>2. candidates \subseteq Items /\ draft \in [Items -> Drafts]
      BY DEF Typed, TypeOK, ItemRecords, Drafts
    <3> HIDE DEF candidates, draft
    <3>3. /\ locals \in RequestLocals /\ locals.todo = candidates /\ locals.reserved = {}
          /\ locals.found = NoRequest /\ locals.outcome = IdleRequest.outcome
      BY <1>0, <3>2, InitialValues DEF RequestLocals
    <3> HIDE DEF locals
    <3>4. /\ l \in RequestLocals /\ l.todo = candidates /\ l.reserved = {}
          /\ l.pc = IF candidates = {} THEN "complete" ELSE "reserve"
          /\ l.found = NoRequest /\ l.outcome = IdleRequest.outcome
      BY <3>3 DEF RequestLocals, RequestPcs
    <3> HIDE DEF l
    <3>5. GoodRequest(l)
      BY <1>0, <3>4 DEF GoodRequest, Creating
    <3>6. l.pc \notin Creating
      BY <3>4 DEF Creating
    <3> QED BY <1>0, <3>1, <3>4, <3>5, <3>6
  <2> QED BY <2>1, <2>2
<1> QED BY <1>1, RequestMoves

-----------------------------------------------------------------------------
(* What a step makes of an item *)

Claimed(i, w) ==
    /\ Claimable(i)
    /\ item'[i] = [item[i] EXCEPT !.status = "extracting", !.holder = w, !.lease = "live"]

Extracted(i) ==
    /\ item[i].status = "extracting"
    /\ \E status \in {"ready", "failed"}, draft \in Drafts :
          item'[i] = [item[i] EXCEPT !.status = status, !.draft = draft,
                                     !.holder = NoWorker, !.lease = "none"]

LeasePassed(i) ==
    item[i].lease = "live" /\ item'[i] = [item[i] EXCEPT !.lease = "passed"]

Edited(i) == \E d \in EditedDrafts : item'[i] = [item[i] EXCEPT !.draft = d]

Deleted(i) ==
    /\ item[i].status \in ItemState \ {"deleted", "submitted"}
    /\ ~ Protected(i)
    /\ item'[i] = [item[i] EXCEPT !.previousStatus = item[i].status, !.status = "deleted"]

Undone(i) ==
    /\ item[i].status = "deleted" /\ item[i].previousStatus # "none"
    /\ item'[i] = [item[i] EXCEPT !.status = item[i].previousStatus, !.previousStatus = "none"]

Retried(i) ==
    /\ Retryable(i)
    /\ item'[i] = [item[i] EXCEPT !.status = "queued", !.holder = NoWorker, !.lease = "none"]

ImageDeleted(i) ==
    ImageOf[i] \in deletedImages' /\ item'[i] = [item[i] EXCEPT !.status = "deleted"]

ReservedBy(i, r) ==
    /\ Reservable(i)
    /\ item'[i] = [item[i] EXCEPT !.token = r, !.reservation = "live"]

CompletedBy(i, r) == Complete(r) /\ item'[i] = Outcome(r, i)

\* A reservation runs out under its submission only at the cost of a stall.
ReservationPassed(i) ==
    /\ item[i].reservation = "live"
    /\ Submitting(i) => stalls < MaxStalls /\ stalls' = stalls + 1
    /\ item'[i] = [item[i] EXCEPT !.reservation = "passed"]

ItemChange(i) ==
    \/ item'[i] = item[i]
    \/ \E w \in Workers : Claimed(i, w)
    \/ Extracted(i) \/ LeasePassed(i)
    \/ Edited(i) \/ Deleted(i) \/ Undone(i) \/ Retried(i) \/ ImageDeleted(i)
    \/ \E r \in Requests : ReservedBy(i, r) \/ CompletedBy(i, r)
    \/ ReservationPassed(i)

\* An action that sets one item changes no other.
LEMMA SetChanges ==
  ASSUME TypeOK, NEW k \in Items, NEW new, Set(k, new), item'[k] = new => ItemChange(k)
  PROVE  /\ item' = [i \in Items |-> item'[i]]
         /\ \A i \in Items : ItemChange(i)
<1>1. item' = [i \in Items |-> IF i = k THEN new ELSE item[i]]
  BY DEF Set, TypeOK
<1>2. item' = [i \in Items |-> item'[i]] /\ item'[k] = new
  BY <1>1
<1>3. \A i \in Items \ {k} : item'[i] = item[i]
  BY <1>1
<1> QED BY <1>2, <1>3 DEF ItemChange

LEMMA ReviewChanges ==
  ASSUME Typed, NEW r \in Requests, Review(r)
  PROVE  item' = [i \in Items |-> item'[i]] /\ \A i \in Items : ItemChange(i)
<1>1. /\ item \in [Items -> ItemRecords] /\ req[r].item \in Items /\ req[r].attempt \in 1 .. 5
      /\ TypeOK
  BY DEF Typed, TypeOK, RequestLocals
<1>0. CASE UNCHANGED item
  BY <1>0, <1>1 DEF ItemChange
<1> DEFINE k == req[r].item
<1>2. CASE ReviewBegin(r)
  BY <1>0, <1>2 DEF ReviewBegin
<1>3. CASE update_item_draft(r)
  <2>1. PICK d \in EditedDrafts : Set(k, [item[k] EXCEPT !.draft = d])
    BY <1>3 DEF update_item_draft
  <2>2. item'[k] = [item[k] EXCEPT !.draft = d] => ItemChange(k)
    BY DEF ItemChange, Edited
  <2> QED BY <1>1, <2>1, <2>2, SetChanges
<1>4. CASE mark_item_deleted(r)
  <2>1. CASE item[k].status = DeletableStatuses[req[r].attempt] /\ ~ Protected(k)
    <3>1. Set(k, [item[k] EXCEPT !.previousStatus = item[k].status, !.status = "deleted"])
      BY <1>4, <2>1 DEF mark_item_deleted
    <3>2. item[k].status \in ItemState \ {"deleted", "submitted"}
      BY <1>1, <2>1 DEF DeletableStatuses, ItemState
    <3>3. item'[k] = [item[k] EXCEPT !.previousStatus = item[k].status, !.status = "deleted"]
             => ItemChange(k)
      BY <2>1, <3>2 DEF ItemChange, Deleted
    <3> QED BY <1>1, <3>1, <3>3, SetChanges
  <2>2. CASE ~ (item[k].status = DeletableStatuses[req[r].attempt] /\ ~ Protected(k))
    BY <1>0, <1>4, <2>2 DEF mark_item_deleted
  <2> QED BY <2>1, <2>2
<1>5. CASE undo_item_deletion(r)
  <2>1. CASE item[k].status = "deleted" /\ item[k].previousStatus # "none"
    <3>1. Set(k, [item[k] EXCEPT !.status = item[k].previousStatus, !.previousStatus = "none"])
      BY <1>5, <2>1 DEF undo_item_deletion
    <3>2. item'[k] = [item[k] EXCEPT !.status = item[k].previousStatus, !.previousStatus = "none"]
             => ItemChange(k)
      BY <2>1 DEF ItemChange, Undone
    <3> QED BY <1>1, <3>1, <3>2, SetChanges
  <2>2. CASE ~ (item[k].status = "deleted" /\ item[k].previousStatus # "none")
    BY <1>0, <1>5, <2>2 DEF undo_item_deletion
  <2> QED BY <2>1, <2>2
<1>6. CASE reset_item_for_retry(r)
  <2>1. CASE Retryable(k)
    <3>1. Set(k, [item[k] EXCEPT !.status = "queued", !.holder = NoWorker, !.lease = "none"])
      BY <1>6, <2>1 DEF reset_item_for_retry
    <3>2. item'[k] = [item[k] EXCEPT !.status = "queued", !.holder = NoWorker, !.lease = "none"]
             => ItemChange(k)
      BY <2>1 DEF ItemChange, Retried
    <3> QED BY <1>1, <3>1, <3>2, SetChanges
  <2>2. CASE ~ Retryable(k)
    BY <1>0, <1>6, <2>2 DEF reset_item_for_retry
  <2> QED BY <2>1, <2>2
<1>7. CASE delete_batch_image(r)
  <2>1. /\ deletedImages' = deletedImages \union {ImageOf[k]}
        /\ item' = [i \in Items |-> IF ImageOf[i] = ImageOf[k]
                                    THEN [item[i] EXCEPT !.status = "deleted"]
                                    ELSE item[i]]
    BY <1>7 DEF delete_batch_image
  <2>2. ASSUME NEW i \in Items PROVE ItemChange(i)
    <3>1. CASE ImageOf[i] = ImageOf[k]
      <4>1. item'[i] = [item[i] EXCEPT !.status = "deleted"] /\ ImageOf[i] \in deletedImages'
        BY <2>1, <3>1
      <4> QED BY <4>1 DEF ItemChange, ImageDeleted
    <3>2. CASE ImageOf[i] # ImageOf[k]
      BY <2>1, <3>2 DEF ItemChange
    <3> QED BY <3>1, <3>2
  <2> QED BY <2>1, <2>2
<1> QED BY <1>2, <1>3, <1>4, <1>5, <1>6, <1>7 DEF Review

LEMMA SubmitChanges ==
  ASSUME Typed, NEW r \in Requests, Submit(r) \/ RequestCrash(r)
  PROVE  item' = [i \in Items |-> item'[i]] /\ \A i \in Items : ItemChange(i)
<1>1. item \in [Items -> ItemRecords] /\ TypeOK
  BY DEF Typed, TypeOK
<1>0. CASE UNCHANGED item
  BY <1>0, <1>1 DEF ItemChange
<1>2. CASE Reserve(r)
  <2> DEFINE k == Min(req[r].todo)
  <2>1. k \in Items
    BY <1>2, ReserveMoves
  <2>2. CASE Reservable(k)
    <3>1. Set(k, [item[k] EXCEPT !.token = r, !.reservation = "live"])
      BY <1>2, <2>2 DEF Reserve
    <3>2. item'[k] = [item[k] EXCEPT !.token = r, !.reservation = "live"] => ItemChange(k)
      BY <2>2 DEF ItemChange, ReservedBy
    <3> QED BY <1>1, <2>1, <3>1, <3>2, SetChanges
  <2>3. CASE ~ Reservable(k)
    BY <1>0, <1>2, <2>3 DEF Reserve
  <2> QED BY <2>2, <2>3
<1>3. CASE Complete(r)
  <2>1. item' = [i \in Items |-> Outcome(r, i)]
    BY <1>3 DEF Complete
  <2>2. \A i \in Items : item'[i] = Outcome(r, i)
    BY <2>1
  <2> QED BY <1>3, <2>1, <2>2 DEF ItemChange, CompletedBy
<1>4. CASE SubmitRead(r) \/ Renew(r) \/ Lookup(r) \/ Guard(r) \/ Insert(r) \/ Enqueue(r)
           \/ CreateFails(r) \/ Confirm(r) \/ RequestCrash(r)
  BY <1>0, <1>4 DEF SubmitRead, Renew, Lookup, Guard, Insert, Enqueue, CreateFails, Confirm,
    RequestCrash
<1> QED BY <1>2, <1>3, <1>4 DEF Submit

LEMMA WorkerChanges ==
  ASSUME Typed, NEW w \in Workers, Step(w) \/ WorkerDies(w) \/ WorkerCrash(w)
  PROVE  item' = [i \in Items |-> item'[i]] /\ \A i \in Items : ItemChange(i)
<1>1. item \in [Items -> ItemRecords] /\ worker[w] \in WorkerLocals /\ TypeOK
  BY DEF Typed, TypeOK
<1>0. CASE UNCHANGED item
  BY <1>0, <1>1 DEF ItemChange
<1>2. CASE ClaimItem(w)
  <2> DEFINE k == Min(worker[w].todo)
  <2>1. worker[w].todo # {} /\ worker[w].todo \subseteq Items
    BY <1>1, <1>2 DEF ClaimItem, Typed, WorkerLocals
  <2>2. k \in Items
    BY <2>1, SmallestItem
  <2>3. CASE Claimable(k) /\ item[k].lease # "live"
    <3>1. Set(k, [item[k] EXCEPT !.status = "extracting", !.holder = w, !.lease = "live"])
      BY <1>2, <2>3 DEF ClaimItem
    <3>2. item'[k] = [item[k] EXCEPT !.status = "extracting", !.holder = w, !.lease = "live"]
             => ItemChange(k)
      BY <2>3 DEF ItemChange, Claimed
    <3> QED BY <1>1, <2>2, <3>1, <3>2, SetChanges
  <2>4. CASE ~ (Claimable(k) /\ item[k].lease # "live")
    BY <1>0, <1>2, <2>4 DEF ClaimItem
  <2> QED BY <2>3, <2>4
<1>3. CASE Extract(w)
  <2> DEFINE k == worker[w].item
             result(s, d) == [item[k] EXCEPT !.status = s, !.draft = d,
                                             !.holder = NoWorker, !.lease = "none"]
  <2>1. k \in Items
    BY <1>1 DEF WorkerLocals
  <2>2. ASSUME NEW d \in ExtractedDrafts, Lands(w, k), Set(k, result("ready", d))
        PROVE  item' = [i \in Items |-> item'[i]] /\ \A i \in Items : ItemChange(i)
    <3>1. item'[k] = result("ready", d) => ItemChange(k)
      BY <2>2 DEF ItemChange, Extracted, Lands, Drafts
    <3> QED BY <1>1, <2>1, <2>2, <3>1, SetChanges
  <2>3. ASSUME Lands(w, k), Set(k, [item[k] EXCEPT !.status = "failed",
                                                   !.holder = NoWorker, !.lease = "none"])
        PROVE  item' = [i \in Items |-> item'[i]] /\ \A i \in Items : ItemChange(i)
    <3>1. item[k].draft \in Drafts /\ item[k] \in ItemRecords
      BY <1>1, <2>1 DEF ItemRecords
    <3>2. [item[k] EXCEPT !.status = "failed", !.holder = NoWorker, !.lease = "none"]
             = result("failed", item[k].draft)
      BY <3>1 DEF ItemRecords
    <3>3. item'[k] = result("failed", item[k].draft) => ItemChange(k)
      BY <2>3, <3>1 DEF ItemChange, Extracted, Lands
    <3> QED BY <1>1, <2>1, <2>3, <3>2, <3>3, SetChanges
  <2> QED BY <1>0, <1>3, <2>2, <2>3 DEF Extract
<1>4. CASE Scan(w) \/ WorkerDies(w) \/ WorkerCrash(w)
  BY <1>0, <1>4 DEF Scan, WorkerDies, WorkerCrash
<1> QED BY <1>2, <1>3, <1>4 DEF Step

\* Each step changes each item, if at all, in one of the ways listed.
LEMMA ItemChanges ==
  ASSUME Typed, [Next]_vars
  PROVE  item' = [i \in Items |-> item'[i]] /\ \A i \in Items : ItemChange(i)
<1>1. item \in [Items -> ItemRecords] /\ TypeOK
  BY DEF Typed, TypeOK
<1>2. CASE BatchExpires \/ UNCHANGED vars
  BY <1>1, <1>2 DEF BatchExpires, vars, ItemChange
<1>3. ASSUME NEW k \in Items, LeaseExpires(k) \/ LeaseOverrun(k)
      PROVE  item' = [i \in Items |-> item'[i]] /\ \A i \in Items : ItemChange(i)
  <2>1. Set(k, [item[k] EXCEPT !.lease = "passed"]) /\ item[k].lease = "live"
    BY <1>3 DEF LeaseExpires, LeaseOverrun
  <2>2. item'[k] = [item[k] EXCEPT !.lease = "passed"] => ItemChange(k)
    BY <2>1 DEF ItemChange, LeasePassed
  <2> QED BY <1>1, <2>1, <2>2, SetChanges
<1>4. ASSUME NEW k \in Items, ReservationExpires(k) \/ ReservationOverrun(k)
      PROVE  item' = [i \in Items |-> item'[i]] /\ \A i \in Items : ItemChange(i)
  <2>1. /\ Set(k, [item[k] EXCEPT !.reservation = "passed"]) /\ item[k].reservation = "live"
        /\ Submitting(k) => stalls < MaxStalls /\ stalls' = stalls + 1
    BY <1>4 DEF ReservationExpires, ReservationOverrun
  <2>2. item'[k] = [item[k] EXCEPT !.reservation = "passed"] => ItemChange(k)
    BY <2>1 DEF ItemChange, ReservationPassed
  <2> QED BY <1>1, <2>1, <2>2, SetChanges
<1> QED BY <1>2, <1>3, <1>4, ReviewChanges, SubmitChanges, WorkerChanges DEF Next

-----------------------------------------------------------------------------
(* Type correctness *)

\* What the recording of the outcomes writes.
LEMMA OutcomeFields ==
  ASSUME Typed, NEW r \in Requests, NEW i \in Items
  PROVE  /\ Outcome(r, i) \in ItemRecords /\ GoodItem(Outcome(r, i))
         /\ ~ Holds(r, i) => Outcome(r, i) = item[i]
         /\ Holds(r, i) => Outcome(r, i).reservation = "none" /\ Outcome(r, i).token = NoRequest
         /\ Outcome(r, i).draft = item[i].draft
         /\ Outcome(r, i).previousStatus = item[i].previousStatus
         /\ Outcome(r, i).status # item[i].status =>
               item[i].status # "deleted" /\ Outcome(r, i).status \in {"submitted", "submit-failed"}
         /\ \/ Outcome(r, i).status = item[i].status /\ Outcome(r, i).problem = item[i].problem
            \/ /\ Holds(r, i)
               /\ Outcome(r, i).status = "submit-failed"
            \/ /\ Holds(r, i) /\ req[r].outcome[i] \notin {"none", "failed"}
               /\ Outcome(r, i).status = "submitted"
               /\ Outcome(r, i).problem = req[r].outcome[i]
<1>1. /\ item[i] \in ItemRecords /\ GoodItem(item[i])
      /\ req[r].outcome[i] \in Outcomes
  BY DEF Typed, TypeOK, RequestLocals
<1> DEFINE x == [item[i] EXCEPT !.token = NoRequest, !.reservation = "none"]
<1>2. /\ x \in ItemRecords /\ x.token = NoRequest /\ x.reservation = "none"
      /\ x.status = item[i].status /\ x.previousStatus = item[i].previousStatus
      /\ x.draft = item[i].draft /\ x.problem = item[i].problem
      /\ x.holder = item[i].holder /\ x.lease = item[i].lease
  BY <1>1 DEF ItemRecords, ProblemIds, Deadlines
<1>3. Released(i) = x
  BY DEF Released
<1> HIDE DEF x
<1>4. GoodItem(x)
  BY <1>1, <1>2 DEF GoodItem
<1>5. CASE ~ Holds(r, i)
  BY <1>1, <1>5 DEF Outcome
<1>6. CASE Holds(r, i) /\ ~ Recorded(r, i)
  BY <1>2, <1>3, <1>4, <1>6 DEF Outcome
<1>7. CASE Holds(r, i) /\ Recorded(r, i) /\ req[r].outcome[i] = "failed"
  <2>1. Outcome(r, i) = [x EXCEPT !.status = "submit-failed", !.problem = NoRequest]
    BY <1>3, <1>7 DEF Outcome
  <2>2. /\ Outcome(r, i) \in ItemRecords /\ Outcome(r, i).status = "submit-failed"
        /\ Outcome(r, i).token = NoRequest /\ Outcome(r, i).reservation = "none"
        /\ Outcome(r, i).previousStatus = x.previousStatus /\ Outcome(r, i).draft = x.draft
        /\ Outcome(r, i).holder = x.holder /\ Outcome(r, i).lease = x.lease
    BY <1>2, <2>1 DEF ItemRecords, ProblemIds, ItemState
  <2>3. GoodItem(Outcome(r, i))
    BY <1>4, <2>2 DEF GoodItem
  <2> QED BY <1>2, <1>7, <2>2, <2>3 DEF Recorded
<1>8. CASE Holds(r, i) /\ Recorded(r, i) /\ req[r].outcome[i] # "failed"
  <2>1. Outcome(r, i) = [x EXCEPT !.status = "submitted", !.problem = req[r].outcome[i]]
    BY <1>3, <1>8 DEF Outcome
  <2>2. req[r].outcome[i] \in Requests /\ req[r].outcome[i] \notin {"none", "failed"}
    BY <1>1, <1>8 DEF Recorded, Outcomes
  <2>3. /\ Outcome(r, i) \in ItemRecords /\ Outcome(r, i).status = "submitted"
        /\ Outcome(r, i).problem = req[r].outcome[i]
        /\ Outcome(r, i).token = NoRequest /\ Outcome(r, i).reservation = "none"
        /\ Outcome(r, i).previousStatus = x.previousStatus /\ Outcome(r, i).draft = x.draft
        /\ Outcome(r, i).holder = x.holder /\ Outcome(r, i).lease = x.lease
    BY <1>2, <2>1, <2>2 DEF ItemRecords, ProblemIds, ItemState
  <2>4. GoodItem(Outcome(r, i))
    BY <1>4, <2>2, <2>3 DEF GoodItem
  <2> QED BY <1>2, <1>8, <2>2, <2>3, <2>4 DEF Recorded
<1> QED BY <1>5, <1>6, <1>7, <1>8

LEMMA ItemTyped ==
  ASSUME Typed, NEW i \in Items, ItemChange(i)
  PROVE  item'[i] \in ItemRecords /\ GoodItem(item'[i])
<1>1. item[i] \in ItemRecords /\ GoodItem(item[i])
  BY DEF Typed, TypeOK
<1>2. ASSUME NEW w \in Workers, Claimed(i, w) PROVE item'[i] \in ItemRecords /\ GoodItem(item'[i])
  <2>1. /\ item'[i] \in ItemRecords
        /\ item'[i].holder = w /\ item'[i].lease = "live" /\ item'[i].status = "extracting"
        /\ item'[i].token = item[i].token /\ item'[i].reservation = item[i].reservation
        /\ item'[i].previousStatus = item[i].previousStatus
    BY <1>1, <1>2 DEF Claimed, ItemRecords, ItemState, Deadlines
  <2> QED BY <1>1, <2>1 DEF GoodItem
<1>3. CASE Extracted(i)
  <2>1. /\ item'[i] \in ItemRecords
        /\ item'[i].holder = NoWorker /\ item'[i].lease = "none"
        /\ item'[i].status \in {"ready", "failed"}
        /\ item'[i].token = item[i].token /\ item'[i].reservation = item[i].reservation
        /\ item'[i].previousStatus = item[i].previousStatus
    BY <1>1, <1>3, ZenonT(40) DEF Extracted, ItemRecords, ItemState, Deadlines
  <2> QED BY <1>1, <2>1 DEF GoodItem
<1>4. CASE LeasePassed(i)
  <2>1. /\ item'[i] \in ItemRecords /\ item[i].lease = "live"
        /\ item'[i].holder = item[i].holder /\ item'[i].lease = "passed"
        /\ item'[i].status = item[i].status /\ item'[i].problem = item[i].problem
        /\ item'[i].token = item[i].token /\ item'[i].reservation = item[i].reservation
        /\ item'[i].previousStatus = item[i].previousStatus
    BY <1>1, <1>4 DEF LeasePassed, ItemRecords, Deadlines
  <2> QED BY <1>1, <2>1 DEF GoodItem
<1>5. CASE Edited(i)
  BY <1>1, <1>5 DEF Edited, ItemRecords, Drafts, GoodItem
<1>6. CASE Deleted(i)
  BY <1>1, <1>6 DEF Deleted, ItemRecords, ItemState, GoodItem
<1>7. CASE Undone(i)
  BY <1>1, <1>7 DEF Undone, ItemRecords, GoodItem
<1>8. CASE Retried(i)
  <2>1. /\ item'[i] \in ItemRecords
        /\ item'[i].holder = NoWorker /\ item'[i].lease = "none"
        /\ item'[i].status = "queued"
        /\ item'[i].token = item[i].token /\ item'[i].reservation = item[i].reservation
        /\ item'[i].previousStatus = item[i].previousStatus
    BY <1>1, <1>8 DEF Retried, ItemRecords, ItemState, Deadlines
  <2> QED BY <1>1, <2>1 DEF GoodItem
<1>9. CASE ImageDeleted(i)
  BY <1>1, <1>9 DEF ImageDeleted, ItemRecords, ItemState, GoodItem
<1>10. ASSUME NEW r \in Requests, ReservedBy(i, r)
       PROVE  item'[i] \in ItemRecords /\ GoodItem(item'[i])
  <2>1. /\ item'[i] \in ItemRecords
        /\ item'[i].holder = item[i].holder /\ item'[i].lease = item[i].lease
        /\ item'[i].status = "ready"
        /\ item'[i].token = r /\ item'[i].reservation = "live"
        /\ item'[i].previousStatus = item[i].previousStatus
    BY <1>1, <1>10 DEF ReservedBy, Reservable, ItemRecords, ProblemIds, Deadlines
  <2> QED BY <1>1, <2>1 DEF GoodItem
<1>11. ASSUME NEW r \in Requests, CompletedBy(i, r)
       PROVE  item'[i] \in ItemRecords /\ GoodItem(item'[i])
  BY <1>11, OutcomeFields DEF CompletedBy
<1>12. CASE ReservationPassed(i)
  <2>1. /\ item'[i] \in ItemRecords /\ item[i].reservation = "live"
        /\ item'[i].holder = item[i].holder /\ item'[i].lease = item[i].lease
        /\ item'[i].status = item[i].status /\ item'[i].problem = item[i].problem
        /\ item'[i].token = item[i].token /\ item'[i].reservation = "passed"
        /\ item'[i].previousStatus = item[i].previousStatus
    BY <1>1, <1>12 DEF ReservationPassed, ItemRecords, Deadlines
  <2> QED BY <1>1, <2>1 DEF GoodItem
<1> QED BY <1>1, <1>2, <1>3, <1>4, <1>5, <1>6, <1>7, <1>8, <1>9, <1>10, <1>11, <1>12
        DEF ItemChange

LEMMA WorkerTyped ==
  ASSUME Typed, [Next]_vars
  PROVE  /\ worker' \in [Workers -> WorkerLocals]
         /\ \A w \in Workers : worker'[w].pc = "claim" => worker'[w].todo # {}
<1>1. /\ worker \in [Workers -> WorkerLocals]
      /\ \A w \in Workers : worker[w].pc = "claim" => worker[w].todo # {}
  BY DEF Typed, TypeOK
<1>2. CASE UNCHANGED worker
  BY <1>1, <1>2
<1>3. ASSUME NEW w \in Workers, NEW l \in WorkerLocals, l.pc = "claim" => l.todo # {},
             worker' = [worker EXCEPT ![w] = l]
      PROVE  /\ worker' \in [Workers -> WorkerLocals]
             /\ \A v \in Workers : worker'[v].pc = "claim" => worker'[v].todo # {}
  BY <1>1, <1>3
<1>4. ASSUME NEW w \in Workers, Step(w) \/ WorkerDies(w) \/ WorkerCrash(w)
      PROVE  \E l \in WorkerLocals : /\ l.pc = "claim" => l.todo # {}
                                     /\ worker' = [worker EXCEPT ![w] = l]
  <2>l. worker[w] \in WorkerLocals /\ worker[w].todo \subseteq Items
    BY <1>1 DEF WorkerLocals
  <2>1. CASE Scan(w)
    <3> DEFINE claimable == {i \in Items : Claimable(i)}
               l == [worker[w] EXCEPT !.pc = "claim", !.todo = claimable]
    <3>1. claimable \subseteq Items
      OBVIOUS
    <3>2. claimable # {} /\ worker' = [worker EXCEPT ![w] = l]
      BY <2>1 DEF Scan
    <3> HIDE DEF claimable
    <3>3. l \in WorkerLocals /\ l.todo # {}
      BY <2>l, <3>1, <3>2 DEF WorkerLocals
    <3> QED BY <3>2, <3>3
  <2>2. CASE ClaimItem(w)
    <3> DEFINE i == Min(worker[w].todo)
               rest == worker[w].todo \ {i}
    <3>1. i \in Items
      BY <1>1, <2>2, <2>l, SmallestItem DEF ClaimItem
    <3>2. CASE Claimable(i) /\ item[i].lease # "live"
      <4>1. worker' = [worker EXCEPT ![w] = [pc |-> "extract", todo |-> {}, item |-> i]]
        BY <2>2, <3>2 DEF ClaimItem
      <4>2. /\ [pc |-> "extract", todo |-> {}, item |-> i] \in WorkerLocals
            /\ [pc |-> "extract", todo |-> {}, item |-> i].pc # "claim"
        BY <3>1 DEF WorkerLocals
      <4> QED BY <4>1, <4>2
    <3>3. CASE ~ (Claimable(i) /\ item[i].lease # "live") /\ rest = {}
      <4>1. worker' = [worker EXCEPT ![w] = IdleWorker]
        BY <2>2, <3>3 DEF ClaimItem
      <4> QED BY <4>1, InitialValues
    <3>4. CASE ~ (Claimable(i) /\ item[i].lease # "live") /\ rest # {}
      <4>1. worker' = [worker EXCEPT ![w] = [worker[w] EXCEPT !.todo = rest]]
        BY <2>2, <3>4 DEF ClaimItem
      <4>2. rest \subseteq Items
        BY <2>l
      <4> HIDE DEF rest
      <4>3. [worker[w] EXCEPT !.todo = rest] \in WorkerLocals
        BY <2>l, <4>2 DEF WorkerLocals
      <4>4. [worker[w] EXCEPT !.todo = rest].todo = rest
        BY <2>l DEF WorkerLocals
      <4> QED BY <3>4, <4>1, <4>3, <4>4
    <3> QED BY <3>2, <3>3, <3>4
  <2>3. CASE Extract(w) \/ WorkerDies(w) \/ WorkerCrash(w)
    <3>1. \/ worker' = [worker EXCEPT ![w] = IdleWorker]
          \/ worker' = [worker EXCEPT ![w] = DeadWorker]
      BY <2>3 DEF Extract, WorkerDies, WorkerCrash
    <3> QED BY <3>1, InitialValues
  <2> QED BY <1>4, <2>1, <2>2, <2>3 DEF Step
<1>5. CASE \E w \in Workers : Step(w) \/ WorkerDies(w) \/ WorkerCrash(w)
  BY <1>3, <1>4, <1>5
<1>6. CASE ~ \E w \in Workers : Step(w) \/ WorkerDies(w) \/ WorkerCrash(w)
  <2>1. ASSUME NEW r \in Requests, Review(r) \/ Submit(r) \/ RequestCrash(r) PROVE UNCHANGED worker
    BY <2>1 DEF Review, ReviewBegin, update_item_draft, mark_item_deleted, undo_item_deletion,
      reset_item_for_retry, delete_batch_image, Submit, SubmitRead, Reserve, Renew, Lookup,
      Guard, Insert, Enqueue, CreateFails, Confirm, Complete, RequestCrash
  <2>2. ASSUME NEW i \in Items, LeaseExpires(i) \/ LeaseOverrun(i) \/ ReservationExpires(i)
                                \/ ReservationOverrun(i)
        PROVE  UNCHANGED worker
    BY <2>2 DEF LeaseExpires, LeaseOverrun, ReservationExpires, ReservationOverrun
  <2> QED BY <1>2, <1>6, <2>1, <2>2 DEF Next, BatchExpires, vars
<1> QED BY <1>5, <1>6

\* What the steps of the workers, and of time, leave alone.
LEMMA WorkerLeaves ==
  ASSUME NEW w \in Workers, Step(w) \/ WorkerDies(w) \/ WorkerCrash(w)
  PROVE  /\ UNCHANGED <<batch, expired, deletedImages, problems, tasks, req, stalls>>
         /\ crashes' = crashes \/ (crashes < MaxCrashes /\ crashes' = crashes + 1)
<1>1. CASE Scan(w)
  BY <1>1 DEF Scan
<1>2. CASE ClaimItem(w)
  BY <1>2 DEF ClaimItem
<1>3. CASE Extract(w)
  BY <1>3, Zenon DEF Extract
<1>4. CASE WorkerDies(w) \/ WorkerCrash(w)
  BY <1>4 DEF WorkerDies, WorkerCrash
<1> QED BY <1>1, <1>2, <1>3, <1>4 DEF Step

LEMMA TimeLeaves ==
  ASSUME NEW i \in Items, LeaseExpires(i) \/ LeaseOverrun(i) \/ ReservationExpires(i)
                          \/ ReservationOverrun(i)
  PROVE  /\ UNCHANGED <<batch, expired, deletedImages, problems, tasks, worker, req, crashes>>
         /\ stalls' = stalls \/ (stalls < MaxStalls /\ stalls' = stalls + 1)
  BY DEF LeaseExpires, LeaseOverrun, ReservationExpires, ReservationOverrun

\* The steps of a request, as the parts of the state they leave alone.
LEMMA RequestLeaves ==
  ASSUME NEW r \in Requests, Review(r) \/ Submit(r) \/ RequestCrash(r)
  PROVE  /\ UNCHANGED <<expired, worker, stalls>>
         /\ UNCHANGED batch \/ Complete(r)
         /\ UNCHANGED deletedImages \/ delete_batch_image(r)
         /\ UNCHANGED problems \/ Insert(r) \/ CreateFails(r)
         /\ UNCHANGED tasks \/ Enqueue(r)
         /\ \/ crashes' = crashes
            \/ crashes < MaxCrashes /\ crashes' = crashes + 1
<1>1. CASE ReviewBegin(r) \/ SubmitRead(r)
  BY <1>1, Zenon DEF ReviewBegin, SubmitRead
<1>2. CASE update_item_draft(r) \/ mark_item_deleted(r)
  BY <1>2 DEF update_item_draft, mark_item_deleted
<1>3. CASE undo_item_deletion(r) \/ reset_item_for_retry(r)
  BY <1>3 DEF undo_item_deletion, reset_item_for_retry
<1>4. CASE delete_batch_image(r) \/ Complete(r)
  BY <1>4 DEF delete_batch_image, Complete
<1>5. CASE Reserve(r)
  BY <1>5 DEF Reserve
<1>6. CASE Renew(r) \/ Guard(r) \/ Confirm(r)
  BY <1>6 DEF Renew, Guard, Confirm
<1>7. CASE Lookup(r)
  BY <1>7, Zenon DEF Lookup
<1>8. CASE Insert(r) \/ Enqueue(r) \/ CreateFails(r) \/ RequestCrash(r)
  BY <1>8 DEF Insert, Enqueue, CreateFails, RequestCrash
<1> QED BY <1>1, <1>2, <1>3, <1>4, <1>5, <1>6, <1>7, <1>8 DEF Review, Submit

-----------------------------------------------------------------------------
(* What a step makes of the locals of its request *)

\* It has nothing reserved, before or after its submission's work.
Rests(r) == req'[r].reserved = {} /\ req'[r].found = NoRequest /\ req'[r].pc \notin Creating

Goes(r, pc, found) ==
    /\ req[r].pc \in Creating
    /\ req'[r].pc = pc /\ req'[r].found = found /\ req'[r].item = req[r].item
    /\ req'[r].reserved = req[r].reserved /\ req'[r].outcome = req[r].outcome

Concludes(r, outcome) ==
    /\ req[r].pc \in Creating
    /\ req'[r].pc \in {"renew", "complete"} /\ req'[r].found = NoRequest
    /\ req'[r].reserved = req[r].reserved
    /\ \A i \in Items :
          req'[r].outcome[i] = IF i = req[r].item THEN outcome ELSE req[r].outcome[i]

LooksUp(r) ==
    \/ Goes(r, "guard", NoRequest) /\ problems[req[r].item] = {}
    \/ \E p \in problems[req[r].item] : Goes(r, "guard", p)

GoesOn(r) ==
    \/ Goes(r, "insert", NoRequest) /\ req[r].pc = "guard" /\ req[r].found = NoRequest
    \/ Goes(r, "enqueue", req[r].found) /\ req[r].found # NoRequest
    \/ Goes(r, "confirm", req[r].found) /\ req[r].found \in tasks'[req[r].item]

RequestChange(r) ==
    \/ Rests(r)
    \/ Reserve(r)
    \/ Goes(r, "lookup", NoRequest)
    \/ UNCHANGED problems /\ (LooksUp(r) \/ GoesOn(r))
    \/ Goes(r, "enqueue", r) /\ r \in problems'[req[r].item]
    \/ Concludes(r, "failed")
    \/ Concludes(r, req[r].found) /\ req[r].pc = "confirm" /\ UNCHANGED problemVars

Stored(r) ==
    /\ req' \in [Requests -> RequestLocals] /\ \A q \in Requests : GoodRequest(req'[q])
    /\ \A q \in Requests \ {r} : req'[q] = req[q]

LEMMA RequestChanges ==
  ASSUME Typed, NEW r \in Requests, Review(r) \/ Submit(r) \/ RequestCrash(r)
  PROVE  Stored(r) /\ RequestChange(r)
<1>0. /\ req[r] \in RequestLocals /\ GoodRequest(req[r])
      /\ problems \in [Items -> SUBSET Requests] /\ tasks \in [Items -> SUBSET Requests]
  BY DEF Typed, TypeOK
<1>l. /\ req[r].item \in Items /\ req[r].found \in ProblemIds
      /\ "failed" \in Outcomes
  BY <1>0 DEF RequestLocals, Outcomes
<1>1. CASE ReviewBegin(r) \/ SubmitRead(r)
  BY <1>1, BeginMoves DEF Stored, RequestChange, Rests
<1>2. CASE Finish(r)
  <2>1. req'[r].pc \notin Creating /\ req'[r].found = NoRequest
    BY <1>2, FinishMoves DEF GoodRequest, Creating
  <2> QED BY <1>2, <2>1, FinishMoves DEF Stored, RequestChange, Rests
<1>3. CASE mark_item_deleted(r) /\ ~ Finish(r)
  <2> DEFINE l == [req[r] EXCEPT !.attempt = req[r].attempt + 1]
  <2>1. /\ req' = [req EXCEPT ![r] = l] /\ req[r].attempt # 5 /\ req[r].pc = "delete"
    BY <1>3 DEF mark_item_deleted
  <2>2. req[r].attempt \in 1 .. 5
    BY <1>0 DEF RequestLocals
  <2>3. req[r].attempt + 1 \in 1 .. 5
    BY <2>1, <2>2
  <2>4. /\ l \in RequestLocals /\ l.pc = "delete" /\ l.reserved = req[r].reserved
        /\ l.outcome = req[r].outcome /\ l.found = req[r].found
    BY <1>0, <2>1, <2>3 DEF RequestLocals
  <2> HIDE DEF l
  <2>5. GoodRequest(l) /\ l.reserved = {} /\ l.found = NoRequest /\ l.pc \notin Creating
    BY <1>0, <2>1, <2>4 DEF GoodRequest, Creating
  <2> QED BY <2>1, <2>4, <2>5, RequestMoves DEF Stored, RequestChange, Rests
<1>4. CASE Reserve(r)
  BY <1>4, ReserveMoves DEF Stored, RequestChange
<1>5. CASE Conclude(r, "failed") /\ req[r].pc \in Creating
  BY <1>5, <1>l, ConcludeMoves DEF Stored, RequestChange, Concludes
<1>6. CASE Renew(r)
  <2>1. req[r].pc \in Creating /\ req[r].found = NoRequest /\ "lookup" \in Creating
    BY <1>6, <1>0 DEF Renew, Creating, GoodRequest
  <2>2. Conclude(r, "failed") \/ Goto(r, "lookup")
    BY <1>6 DEF Renew
  <2> QED BY <1>5, <2>1, <2>2, GotoMoves DEF Stored, RequestChange, Goes
<1>7. CASE Lookup(r)
  <2>1. req[r].pc \in Creating /\ "guard" \in Creating /\ req[r].pc = "lookup" /\ UNCHANGED problems
    <3>1. req[r].pc = "lookup" /\ UNCHANGED problemVars
      BY <1>7, Zenon DEF Lookup
    <3> QED BY <3>1 DEF Creating
  <2>2. CASE Conclude(r, "failed")
    BY <1>5, <2>1, <2>2
  <2>3. CASE Goto(r, "guard") /\ problems[req[r].item] = {}
    <3>1. req[r].found = NoRequest
      BY <1>0, <2>1 DEF GoodRequest
    <3> QED BY <2>1, <2>3, <3>1, GotoMoves DEF Stored, RequestChange, LooksUp, Goes
  <2>4. ASSUME NEW p \in problems[req[r].item],
               req' = [req EXCEPT ![r] = [req[r] EXCEPT !.pc = "guard", !.found = p]]
        PROVE  Stored(r) /\ RequestChange(r)
    <3> DEFINE l == [req[r] EXCEPT !.pc = "guard", !.found = p]
    <3>1. p \in ProblemIds
      BY <1>0, <1>l DEF ProblemIds
    <3>2. /\ l \in RequestLocals /\ l.pc = "guard" /\ l.item = req[r].item /\ l.found = p
          /\ l.reserved = req[r].reserved /\ l.outcome = req[r].outcome
      BY <1>0, <3>1 DEF RequestLocals, RequestPcs
    <3>3. req' = [req EXCEPT ![r] = l]
      BY <2>4
    <3> HIDE DEF l
    <3>4. GoodRequest(l)
      BY <1>0, <2>1, <3>2 DEF GoodRequest, Creating
    <3>5. Stored(r) /\ req'[r] = l
      BY <3>2, <3>3, <3>4, RequestMoves DEF Stored
    <3>6. Goes(r, "guard", p)
      BY <2>1, <3>2, <3>5 DEF Goes
    <3> QED BY <2>1, <3>5, <3>6 DEF RequestChange, LooksUp
  <2>5. \/ Conclude(r, "failed") \/ (Goto(r, "guard") /\ problems[req[r].item] = {})
        \/ \E p \in problems[req[r].item] :
              req' = [req EXCEPT ![r] = [req[r] EXCEPT !.pc = "guard", !.found = p]]
    BY <1>7, Zenon DEF Lookup, Existing
  <2> QED BY <2>2, <2>3, <2>4, <2>5, Zenon
<1>8. CASE Guard(r)
  <2>1. /\ req[r].pc \in Creating /\ req[r].pc = "guard" /\ {"insert", "enqueue"} \subseteq Creating
        /\ UNCHANGED problems
    BY <1>8 DEF Guard, Creating
  <2>2. CASE ~ Renewed(r)
    BY <1>5, <1>8, <2>1, <2>2 DEF Guard
  <2>3. CASE Renewed(r) /\ req[r].found = NoRequest
    <3>1. Goto(r, "insert")
      BY <1>8, <2>3 DEF Guard
    <3> QED BY <2>1, <2>3, <3>1, GotoMoves DEF Stored, RequestChange, GoesOn, Goes
  <2>4. CASE Renewed(r) /\ req[r].found # NoRequest
    <3>1. Goto(r, "enqueue")
      BY <1>8, <2>4 DEF Guard
    <3> QED BY <2>1, <2>4, <3>1, GotoMoves DEF Stored, RequestChange, GoesOn, Goes
  <2> QED BY <2>2, <2>3, <2>4
<1>9. CASE Insert(r)
  <2> DEFINE l == [req[r] EXCEPT !.pc = "enqueue", !.found = r]
  <2>1. /\ req' = [req EXCEPT ![r] = l] /\ req[r].pc = "insert"
        /\ problems' = [problems EXCEPT ![req[r].item] = problems[req[r].item] \union {r}]
    BY <1>9 DEF Insert
  <2>2. /\ l \in RequestLocals /\ l.pc = "enqueue" /\ l.found = r /\ l.item = req[r].item
        /\ l.reserved = req[r].reserved /\ l.outcome = req[r].outcome
    BY <1>0 DEF RequestLocals, RequestPcs, ProblemIds
  <2> HIDE DEF l
  <2>3. GoodRequest(l) /\ req[r].pc \in Creating
    BY <1>0, <2>1, <2>2 DEF GoodRequest, Creating
  <2>4. r \in problems'[req[r].item]
    BY <1>0, <1>l, <2>1
  <2>5. Stored(r) /\ req'[r] = l
    BY <2>1, <2>2, <2>3, RequestMoves DEF Stored
  <2> QED BY <2>2, <2>3, <2>4, <2>5 DEF RequestChange, Goes
<1>10. CASE Enqueue(r)
  <2>1. req[r].pc \in Creating /\ "confirm" \in Creating /\ req[r].found # NoRequest
    BY <1>10, <1>0 DEF Enqueue, Creating, GoodRequest
  <2>2. req[r].found \in tasks'[req[r].item]
    <3>1. tasks' = [tasks EXCEPT ![req[r].item] = tasks[req[r].item] \union {req[r].found}]
      BY <1>10 DEF Enqueue, Enqueued
    <3> QED BY <1>0, <1>l, <3>1
  <2>3. Goto(r, "confirm") /\ UNCHANGED problems
    BY <1>10 DEF Enqueue
  <2> QED BY <2>1, <2>2, <2>3, GotoMoves DEF Stored, RequestChange, GoesOn, Goes
<1>11. CASE CreateFails(r)
  <2>1. req[r].pc \in Creating
    BY <1>11 DEF CreateFails, Creating
  <2> QED BY <1>5, <1>11, <2>1 DEF CreateFails
<1>12. CASE Confirm(r)
  <2>1. /\ req[r].pc \in Creating /\ req[r].pc = "confirm" /\ req[r].found # NoRequest
        /\ UNCHANGED problemVars
    BY <1>12, <1>0 DEF Confirm, Creating, GoodRequest
  <2>2. req[r].found \in Outcomes
    BY <1>l, <2>1 DEF Outcomes, ProblemIds
  <2>3. CASE Conclude(r, "failed")
    BY <1>5, <2>1, <2>3
  <2>4. CASE Conclude(r, req[r].found)
    BY <2>1, <2>2, <2>4, ConcludeMoves DEF Stored, RequestChange, Concludes
  <2> QED BY <1>12, <2>3, <2>4 DEF Confirm
<1> QED BY <1>1, <1>2, <1>3, <1>4, <1>6, <1>7, <1>8, <1>9, <1>10, <1>11, <1>12
        DEF Review, Submit, update_item_draft, undo_item_deletion, reset_item_for_retry,
            delete_batch_image, Complete, RequestCrash

LEMMA ReqTyped ==
  ASSUME Typed, [Next]_vars
  PROVE  req' \in [Requests -> RequestLocals] /\ \A q \in Requests : GoodRequest(req'[q])
<1>1. UNCHANGED req \/ \E r \in Requests : Stored(r)
  BY RequestChanges, WorkerLeaves, TimeLeaves DEF Next, BatchExpires, vars
<1>2. req \in [Requests -> RequestLocals] /\ \A q \in Requests : GoodRequest(req[q])
  BY DEF Typed, TypeOK
<1> QED BY <1>1, <1>2 DEF Stored

\* The problems of an item change only by the request that creates one for it,
\* and no solution task is taken back.
LEMMA ProblemChanges ==
  ASSUME Typed, [Next]_vars, NEW i \in Items
  PROVE  /\ \/ problems'[i] = problems[i]
            \/ \E r \in Requests : Insert(r) /\ req[r].item = i /\ problems'[i] = problems[i] \union {r}
            \/ \E r \in Requests : CreateFails(r) /\ req[r].item = i /\ problems'[i] = problems[i] \ {r}
         /\ tasks[i] \subseteq tasks'[i]
         /\ problems' \in [Items -> SUBSET Requests] /\ tasks' \in [Items -> SUBSET Requests]
<1>1. /\ problems \in [Items -> SUBSET Requests] /\ tasks \in [Items -> SUBSET Requests]
      /\ req \in [Requests -> RequestLocals] /\ \A q \in Requests : GoodRequest(req[q])
  BY DEF Typed, TypeOK
<1>2. ASSUME NEW r \in Requests, Insert(r)
      PROVE  /\ problems'[i] = IF i = req[r].item THEN problems[i] \union {r} ELSE problems[i]
             /\ problems' \in [Items -> SUBSET Requests] /\ UNCHANGED tasks
  BY <1>1, <1>2 DEF Insert
<1>3. ASSUME NEW r \in Requests, CreateFails(r)
      PROVE  /\ problems'[i] \in {problems[i],
                   IF i = req[r].item THEN problems[i] \ {r} ELSE problems[i]}
             /\ problems' \in [Items -> SUBSET Requests] /\ UNCHANGED tasks
  BY <1>1, <1>3 DEF CreateFails
<1>4. ASSUME NEW r \in Requests, Enqueue(r)
      PROVE  /\ tasks[i] \subseteq tasks'[i] /\ tasks' \in [Items -> SUBSET Requests]
             /\ UNCHANGED problems
  <2>1. req[r].found \in Requests
    BY <1>1, <1>4 DEF Enqueue, GoodRequest, RequestLocals, ProblemIds
  <2>2. tasks' = [tasks EXCEPT ![req[r].item] = tasks[req[r].item] \union {req[r].found}]
    BY <1>4 DEF Enqueue, Enqueued
  <2>3. UNCHANGED problems
    BY <1>4 DEF Enqueue
  <2>4. req[r].item \in Items
    BY <1>1 DEF RequestLocals
  <2> HIDE DEF GoodRequest
  <2> QED BY <1>1, <2>1, <2>2, <2>3, <2>4
<1>5. CASE \E r \in Requests : Insert(r) \/ CreateFails(r) \/ Enqueue(r)
  BY <1>1, <1>2, <1>3, <1>4, <1>5
<1>6. CASE ~ \E r \in Requests : Insert(r) \/ CreateFails(r) \/ Enqueue(r)
  <2>1. UNCHANGED problemVars
    BY <1>6, WorkerLeaves, TimeLeaves, RequestLeaves DEF Next, BatchExpires, vars
  <2> QED BY <1>1, <2>1
<1> QED BY <1>5, <1>6

LEMMA BatchTyped ==
  ASSUME Typed, [Next]_vars
  PROVE  /\ batch' \in {"active", "completed"} /\ expired' \in BOOLEAN
         /\ deletedImages \subseteq deletedImages' /\ deletedImages' \subseteq Images
         /\ crashes' \in 0 .. MaxCrashes
         /\ stalls' \in 0 .. MaxStalls /\ stalls <= stalls'
<1>1. /\ batch \in {"active", "completed"} /\ expired \in BOOLEAN /\ deletedImages \subseteq Images
      /\ crashes \in 0 .. MaxCrashes /\ stalls \in 0 .. MaxStalls
      /\ req \in [Requests -> RequestLocals]
  BY DEF Typed, TypeOK
<1>2. ASSUME NEW r \in Requests, Review(r) \/ Submit(r) \/ RequestCrash(r)
      PROVE  /\ batch' \in {"active", "completed"} /\ UNCHANGED expired
             /\ deletedImages \subseteq deletedImages' /\ deletedImages' \subseteq Images
             /\ crashes' \in 0 .. MaxCrashes /\ UNCHANGED stalls
  <2>1. deletedImages \subseteq deletedImages' /\ deletedImages' \subseteq Images
    <3>1. req[r].item \in Items
      BY <1>1 DEF RequestLocals
    <3> QED BY <1>1, <1>2, <3>1, RequestLeaves DEF delete_batch_image
  <2>2. batch' \in {"active", "completed"}
    BY <1>1, <1>2, RequestLeaves DEF Complete
  <2>3. crashes' \in 0 .. MaxCrashes
    BY <1>1, <1>2, RequestLeaves
  <2> QED BY <1>1, <1>2, <2>1, <2>2, <2>3, RequestLeaves
<1>3. ASSUME NEW w \in Workers, Step(w) \/ WorkerDies(w) \/ WorkerCrash(w)
      PROVE  UNCHANGED <<batch, expired, deletedImages, stalls>> /\ crashes' \in 0 .. MaxCrashes
  BY <1>1, <1>3, WorkerLeaves
<1>4. ASSUME NEW k \in Items, LeaseExpires(k) \/ LeaseOverrun(k) \/ ReservationExpires(k)
                              \/ ReservationOverrun(k)
      PROVE  /\ UNCHANGED <<batch, expired, deletedImages, crashes>>
             /\ stalls' \in 0 .. MaxStalls /\ stalls <= stalls'
  BY <1>1, <1>4, TimeLeaves
<1>5. CASE BatchExpires
  BY <1>1, <1>5 DEF BatchExpires
<1>6. CASE UNCHANGED vars
  <2>1. UNCHANGED <<batch, expired, deletedImages, crashes, stalls>>
    BY <1>6 DEF vars
  <2> QED BY <1>1, <2>1
<1> QED BY <1>1, <1>2, <1>3, <1>4, <1>5, <1>6 DEF Next

LEMMA TypeInit == Init => Typed
<1> SUFFICES ASSUME Init PROVE Typed
  OBVIOUS
<1>1. /\ item \in [Items -> ItemRecords] /\ \A i \in Items : GoodItem(item[i])
      /\ req \in [Requests -> RequestLocals] /\ \A r \in Requests : GoodRequest(req[r])
      /\ worker \in [Workers -> WorkerLocals] /\ \A w \in Workers : worker[w].pc # "claim"
  BY InitialValues DEF Init
<1>2. problems \in [Items -> SUBSET Requests] /\ tasks \in [Items -> SUBSET Requests]
  <2>1. problems = [i \in Items |-> {}] /\ tasks = [i \in Items |-> {}]
    BY DEF Init
  <2> QED BY <2>1
<1>3. /\ batch \in {"active", "completed"} /\ expired \in BOOLEAN /\ deletedImages \subseteq Images
      /\ crashes \in 0 .. MaxCrashes /\ stalls \in 0 .. MaxStalls
  <2>1. batch = "active" /\ expired = FALSE /\ deletedImages = {} /\ crashes = 0 /\ stalls = 0
    BY DEF Init
  <2>2. expired \in BOOLEAN /\ batch \in {"active", "completed"}
    BY <2>1, Zenon
  <2> QED BY <2>1, <2>2
<1>4. TypeOK
  BY <1>1, <1>2, <1>3 DEF TypeOK, GoodItem
<1> QED BY <1>1, <1>4 DEF Typed

LEMMA TypeStep == Typed /\ [Next]_vars => Typed'
<1> SUFFICES ASSUME Typed, [Next]_vars PROVE Typed'
  OBVIOUS
<1>1. \A i \in Items : item'[i] \in ItemRecords /\ GoodItem(item'[i])
  BY ItemChanges, ItemTyped
<1>2. item' \in [Items -> ItemRecords]
  BY <1>1, ItemChanges
<1>3. problems' \in [Items -> SUBSET Requests] /\ tasks' \in [Items -> SUBSET Requests]
  BY ProblemChanges, InitialValues
<1>4. TypeOK'
  BY <1>1, <1>2, <1>3, BatchTyped, WorkerTyped, ReqTyped DEF TypeOK, GoodItem
<1> QED BY <1>1, <1>4, WorkerTyped, ReqTyped DEF Typed

LEMMA TypedAlways == Spec => []Typed
  BY TypeInit, TypeStep, PTL DEF Spec

\* The batch, its items, the workers and the requests always hold values the code
\* could have stored: a lease has a holder, a reservation its token, and a
\* submitted item names its problem.
THEOREM TypeCorrect == Spec => []TypeOK
<1>1. Typed => TypeOK
  BY DEF Typed
<1> QED BY <1>1, TypedAlways, PTL

-----------------------------------------------------------------------------
(* What a step may not do to an item *)

\* A live reservation is on a ready item, unless its image was deleted under it.
ReservedIsReady ==
    \A i \in Items : item[i].reservation = "live" =>
        item[i].status = "ready" \/ ImageOf[i] \in deletedImages

\* A change of an item by the fields that the properties below are about.
LEMMA ChangedFields ==
  ASSUME Typed, NEW i \in Items, ItemChange(i)
  PROVE  /\ item[i].status = "deleted" =>
               item'[i].status \in {"deleted", item[i].previousStatus}
         /\ item[i].status = "submitted" =>
               /\ item'[i].problem = item[i].problem
               /\ item'[i].status = "submitted" \/ ImageOf[i] \in deletedImages'
         /\ item[i].status \in {"ready", "submitted"} =>
               item'[i].draft \in {item[i].draft} \union EditedDrafts
         /\ item[i].reservation = "live" /\ item'[i].status # item[i].status =>
               \/ ImageOf[i] \in deletedImages'
               \/ item'[i].status \in {"submitted", "submit-failed"}
               \/ item[i].status # "ready"
         /\ item'[i].reservation = "live" =>
               \/ item[i].reservation = "live" /\ item'[i].status = item[i].status
               \/ item'[i].status = "ready" \/ ImageOf[i] \in deletedImages'
               \/ item[i].reservation = "live" /\ item[i].status # "ready"
<1>1. item[i] \in ItemRecords /\ GoodItem(item[i])
  BY DEF Typed, TypeOK
<1>2. CASE \E w \in Workers : Claimed(i, w)
  BY <1>1, <1>2 DEF Claimed, Claimable, ItemRecords
<1>3. CASE Extracted(i)
  BY <1>1, <1>3 DEF Extracted, ItemRecords
<1>4. CASE LeasePassed(i) \/ Edited(i)
  BY <1>1, <1>4 DEF LeasePassed, Edited, ItemRecords
<1>5. CASE Deleted(i)
  BY <1>1, <1>5 DEF Deleted, Protected, ItemRecords
<1>6. CASE Undone(i)
  BY <1>1, <1>6 DEF Undone, ItemRecords
<1>7. CASE Retried(i)
  BY <1>1, <1>7 DEF Retried, Retryable, ItemRecords
<1>8. CASE ImageDeleted(i)
  BY <1>1, <1>8 DEF ImageDeleted, ItemRecords
<1>9. CASE \E r \in Requests : ReservedBy(i, r)
  BY <1>1, <1>9 DEF ReservedBy, Reservable, ItemRecords
<1>10. ASSUME NEW r \in Requests, CompletedBy(i, r)
       PROVE  /\ item'[i].draft = item[i].draft
              /\ item'[i].status # item[i].status =>
                    item[i].status # "deleted" /\ item'[i].status \in {"submitted", "submit-failed"}
              /\ item[i].status = "submitted" => item'[i] = item[i]
              /\ item'[i].reservation = "live" => item'[i] = item[i]
  <2>1. item'[i] = Outcome(r, i)
    BY <1>10 DEF CompletedBy
  <2>2. item[i].status = "submitted" => ~ Holds(r, i)
    BY <1>1 DEF GoodItem, Holds
  <2> QED BY <2>1, <2>2, OutcomeFields
<1>11. CASE ReservationPassed(i)
  BY <1>1, <1>11 DEF ReservationPassed, ItemRecords
<1>12. CASE item'[i] = item[i]
  BY <1>12
<1> QED BY <1>2, <1>3, <1>4, <1>5, <1>6, <1>7, <1>8, <1>9, <1>10, <1>11, <1>12 DEF ItemChange

LEMMA ReservedInit == Init => ReservedIsReady
<1> SUFFICES ASSUME Init PROVE ReservedIsReady
  OBVIOUS
<1>1. item = [i \in Items |-> build_item_document]
  BY DEF Init
<1> QED BY <1>1 DEF build_item_document, ReservedIsReady

LEMMA ReservedStep == Typed /\ ReservedIsReady /\ [Next]_vars => ReservedIsReady'
<1> SUFFICES ASSUME Typed, ReservedIsReady, [Next]_vars PROVE ReservedIsReady'
  OBVIOUS
<1>1. deletedImages \subseteq deletedImages'
  BY BatchTyped
<1>2. \A i \in Items : ItemChange(i)
  BY ItemChanges
<1> QED BY <1>1, <1>2, ChangedFields DEF ReservedIsReady

\* Neither a late extraction result nor a late outcome of a submission revives a
\* deleted item, also when leases and reservations are overrun.
THEOREM DeletionsHold == Spec => DeletedUnlessUndone
<1>1. Typed /\ [Next]_vars =>
        [\A i \in Items : item[i].status = "deleted" =>
            item'[i].status \in {"deleted", item[i].previousStatus}]_vars
  BY ItemChanges, ChangedFields
<1> QED BY <1>1, TypedAlways, PTL DEF Spec, DeletedUnlessUndone

\* A submitted item keeps its problem and its status: the slower of two
\* submissions, or one whose reservation ran out, records nothing over it.
THEOREM SubmissionsAreFinal == Spec => SubmissionIsFinal
<1>1. Typed /\ [Next]_vars =>
        [\A i \in Items : item[i].status = "submitted" =>
            /\ item'[i].problem = item[i].problem
            /\ item'[i].status = "submitted" \/ ImageOf[i] \in deletedImages']_vars
  BY ItemChanges, ChangedFields
<1> QED BY <1>1, TypedAlways, PTL DEF Spec, SubmissionIsFinal

\* No extraction result replaces the draft of a ready or submitted item.
THEOREM ReviewedDraftsAreKept == Spec => ReviewedDraftKept
<1>1. Typed /\ [Next]_vars =>
        [\A i \in Items : item[i].status \in {"ready", "submitted"} =>
            item'[i].draft \in {item[i].draft} \union EditedDrafts]_vars
  BY ItemChanges, ChangedFields
<1> QED BY <1>1, TypedAlways, PTL DEF Spec, ReviewedDraftKept

\* A live reservation keeps the review endpoints from taking the item away; only
\* the deletion of the image and the submission's own outcome change its status.
THEOREM ReservationsProtect == Spec => ReservationProtects
<1>1. Typed /\ ReservedIsReady /\ [Next]_vars =>
        [\A i \in Items : item[i].reservation = "live" /\ item'[i].status # item[i].status =>
            \/ ImageOf[i] \in deletedImages'
            \/ item'[i].status \in {"submitted", "submit-failed"}]_vars
  <2> SUFFICES ASSUME Typed, ReservedIsReady, [Next]_vars, NEW i \in Items,
                      item[i].reservation = "live", item'[i].status # item[i].status
               PROVE  \/ ImageOf[i] \in deletedImages'
                      \/ item'[i].status \in {"submitted", "submit-failed"}
    OBVIOUS
  <2>1. ItemChange(i)
    BY ItemChanges
  <2>2. item[i].status = "ready" \/ ImageOf[i] \in deletedImages'
    BY BatchTyped DEF ReservedIsReady
  <2> QED BY <2>1, <2>2, ChangedFields
<1>2. Spec => []ReservedIsReady
  BY TypedAlways, ReservedInit, ReservedStep, PTL DEF Spec
<1> QED BY <1>1, <1>2, TypedAlways, PTL DEF Spec, ReservationProtects

-----------------------------------------------------------------------------
(* Admission: one problem for each item *)

\* While it has an item reserved, a submission holds its live reservation.
ReservedIsHeld(r) ==
    \A i \in req[r].reserved : item[i].token = r /\ item[i].reservation = "live"

\* A submission about to insert knows that its item has no problem, one that goes
\* on with a problem found or inserted knows that it is stored, and one that
\* confirms that it has its task.
CreatesOne(r) ==
    /\ req[r].pc \in {"guard", "insert"} /\ req[r].found = NoRequest
          => problems[req[r].item] = {}
    /\ req[r].found # NoRequest => req[r].found \in problems[req[r].item]
    /\ req[r].pc = "confirm" => req[r].found \in tasks[req[r].item]

\* The problem of an outcome that is not recorded yet stands.
OutcomesStand(r) ==
    \A i \in Items : req[r].outcome[i] \notin {"none", "failed"} =>
        req[r].outcome[i] \in problems[i] \intersect tasks[i]

\* AdmittedOnce, item by item and without counting.
AdmittedAs(i) ==
    /\ \A p, q \in problems[i] : p = q
    /\ item[i].status = "submitted" => item[i].problem \in problems[i] \intersect tasks[i]

\* As long as no deadline has passed under the holder of a lease or reservation.
Admission ==
    stalls = 0 =>
        /\ \A r \in Requests : ReservedIsHeld(r) /\ CreatesOne(r) /\ OutcomesStand(r)
        /\ \A i \in Items : AdmittedAs(i)

LEMMA AdmittedAsCounts ==
  ASSUME \A i \in Items : AdmittedAs(i)
  PROVE  AdmittedOnce
<1> SUFFICES ASSUME NEW i \in Items PROVE Cardinality(problems[i]) <= 1
  BY DEF AdmittedAs, AdmittedOnce
<1>1. CASE problems[i] = {}
  BY <1>1, FS_EmptySet
<1>2. CASE problems[i] # {}
  <2>1. PICK p \in problems[i] : problems[i] = {p}
    BY <1>2 DEF AdmittedAs
  <2> QED BY <2>1, FS_Singleton
<1> QED BY <1>1, <1>2

LEMMA AdmissionInit == Init => Admission
<1> SUFFICES ASSUME Init PROVE Admission
  OBVIOUS
<1>1. /\ req = [r \in Requests |-> IdleRequest] /\ problems = [i \in Items |-> {}]
      /\ item = [i \in Items |-> build_item_document]
  BY DEF Init
<1>2. /\ IdleRequest.reserved = {} /\ IdleRequest.found = NoRequest /\ IdleRequest.pc = "idle"
      /\ \A i \in Items : IdleRequest.outcome[i] = "none"
  BY DEF IdleRequest
<1>3. build_item_document.status = "queued"
  BY DEF build_item_document
<1>4. \A r \in Requests : ReservedIsHeld(r) /\ CreatesOne(r) /\ OutcomesStand(r)
  BY <1>1, <1>2 DEF ReservedIsHeld, CreatesOne, OutcomesStand
<1>5. \A i \in Items : AdmittedAs(i)
  BY <1>1, <1>3 DEF AdmittedAs
<1> QED BY <1>4, <1>5 DEF Admission

\* Where a request stands, from what it holds.
LEMMA Working ==
  ASSUME Typed, NEW r \in Requests
  PROVE  /\ req[r].reserved \subseteq Items
         /\ req[r].pc \in Creating =>
               req[r].item \in req[r].reserved /\ req[r].outcome[req[r].item] = "none"
         /\ req[r].found # NoRequest => req[r].pc \in {"guard", "enqueue", "confirm"}
         /\ req[r].pc \in {"enqueue", "confirm"} => req[r].found # NoRequest
         /\ \A i \in Items : req[r].outcome[i] # "none" => i \in req[r].reserved
         /\ Insert(r) \/ CreateFails(r) => req[r].pc \in Creating
         /\ req[r].reserved # {} => req[r].pc \notin {"idle", "done"}
<1>1. req[r] \in RequestLocals /\ GoodRequest(req[r])
  BY DEF Typed, TypeOK
<1>2. Insert(r) \/ CreateFails(r) => req[r].pc \in Creating
  BY DEF Insert, CreateFails, Creating
<1> QED BY <1>1, <1>2 DEF RequestLocals, GoodRequest, Creating

\* No other request touches the problems of an item a submission has reserved.
LEMMA ReservedStands ==
  ASSUME Typed, [Next]_vars, \A q \in Requests : ReservedIsHeld(q),
         NEW r \in Requests, NEW i \in req[r].reserved,
         req[r].item # i \/ ~ (Insert(r) \/ CreateFails(r))
  PROVE  problems'[i] = problems[i] /\ tasks[i] \subseteq tasks'[i]
<1>1. i \in Items
  BY Working
<1>2. ASSUME NEW q \in Requests, req[q].item = i, Insert(q) \/ CreateFails(q) PROVE FALSE
  <2>1. i \in req[q].reserved
    BY <1>2, Working
  <2>2. q = r
    BY <2>1 DEF ReservedIsHeld
  <2> QED BY <1>2, <2>2
<1> QED BY <1>1, <1>2, ProblemChanges

\* A submission starts to hold an item only by reserving it.
LEMMA ReservedBefore ==
  ASSUME Typed, NEW r \in Requests, Stored(r), RequestChange(r), NEW i \in req'[r].reserved
  PROVE  i \in req[r].reserved \/ (Reserve(r) /\ i = Min(req[r].todo) /\ Reservable(i))
  BY ReserveMoves DEF RequestChange, Rests, LooksUp, GoesOn, Goes, Concludes

\* An item that a submission has reserved before and after a step stays held.
LEMMA HeldStays ==
  ASSUME Typed, [Next]_vars, stalls' = 0, stalls = 0,
         NEW r \in Requests, ReservedIsHeld(r), NEW i \in req[r].reserved, ~ Complete(r)
  PROVE  item'[i].token = r /\ item'[i].reservation = "live"
<1>1. /\ i \in Items /\ item[i] \in ItemRecords /\ item[i].token = r
      /\ item[i].reservation = "live" /\ Submitting(i)
  BY Working DEF Typed, TypeOK, ReservedIsHeld, Submitting
<1>2. ItemChange(i)
  BY <1>1, ItemChanges
<1>3. ~ ReservationPassed(i) /\ ~ \E q \in Requests : ReservedBy(i, q)
  BY <1>1 DEF ReservationPassed, ReservedBy, Reservable
<1>4. ASSUME NEW q \in Requests, CompletedBy(i, q) PROVE item'[i] = item[i]
  <2>1. item'[i] = Outcome(q, i) /\ q # r
    BY <1>4 DEF CompletedBy
  <2>2. ~ Holds(q, i)
    BY <1>1, <2>1 DEF Holds
  <2> QED BY <1>1, <2>1, <2>2, OutcomeFields
<1>5. \/ item'[i] = item[i]
      \/ \E w \in Workers : Claimed(i, w)
      \/ Extracted(i) \/ LeasePassed(i)
      \/ Edited(i) \/ Deleted(i) \/ Undone(i) \/ Retried(i) \/ ImageDeleted(i)
  BY <1>2, <1>3, <1>4 DEF ItemChange
<1> QED BY <1>1, <1>5 DEF Claimed, Extracted, LeasePassed, Edited, Deleted, Undone, Retried,
      ImageDeleted, ItemRecords

\* The step of a submission keeps what it knows of its problems.
LEMMA ActingStep ==
  ASSUME Typed, [Next]_vars, \A q \in Requests : ReservedIsHeld(q),
         NEW r \in Requests, CreatesOne(r), OutcomesStand(r), Stored(r), RequestChange(r)
  PROVE  CreatesOne(r)' /\ OutcomesStand(r)'
<1>1. \A i \in req[r].reserved : req[r].item # i =>
         problems'[i] = problems[i] /\ tasks[i] \subseteq tasks'[i]
  BY ReservedStands
<1>2. GoodRequest(req'[r]) /\ req'[r] \in RequestLocals
  BY DEF Stored
<1>3. \A i \in Items : req[r].outcome[i] # "none" => i \in req[r].reserved
  BY Working
<1>4. CASE Rests(r)
  BY <1>2, <1>4 DEF Rests, Creating, GoodRequest, CreatesOne, OutcomesStand
<1>5. CASE Reserve(r)
  <2>1. UNCHANGED problemVars
    BY <1>5 DEF Reserve
  <2> QED BY <1>5, <2>1, ReserveMoves DEF CreatesOne, OutcomesStand
<1>6. ASSUME NEW pc, NEW found, Goes(r, pc, found) PROVE OutcomesStand(r)'
  <2>1. req[r].outcome[req[r].item] = "none"
    BY <1>6, Working DEF Goes
  <2> QED BY <1>1, <1>3, <1>6, <2>1 DEF Goes, OutcomesStand
<1>7. CASE Goes(r, "lookup", NoRequest)
  BY <1>6, <1>7 DEF Goes, CreatesOne
<1>8. CASE UNCHANGED problems /\ (LooksUp(r) \/ GoesOn(r))
  <2>1. OutcomesStand(r)'
    BY <1>6, <1>8 DEF LooksUp, GoesOn
  <2>2. CASE Goes(r, "guard", NoRequest) /\ problems[req[r].item] = {}
    BY <1>8, <2>1, <2>2 DEF Goes, CreatesOne
  <2>3. ASSUME NEW p \in problems[req[r].item], Goes(r, "guard", p) PROVE CreatesOne(r)'
    <3>1. req[r].item \in Items /\ problems \in [Items -> SUBSET Requests]
      BY <2>3, Working DEF Typed, TypeOK, Goes
    <3>2. p # NoRequest
      BY <3>1
    <3> QED BY <1>8, <2>3, <3>2 DEF Goes, CreatesOne
  <2>4. CASE Goes(r, "insert", NoRequest) /\ req[r].pc = "guard" /\ req[r].found = NoRequest
    BY <1>8, <2>1, <2>4 DEF Goes, CreatesOne
  <2>5. CASE Goes(r, "enqueue", req[r].found) /\ req[r].found # NoRequest
    BY <1>8, <2>1, <2>5 DEF Goes, CreatesOne
  <2>6. CASE Goes(r, "confirm", req[r].found) /\ req[r].found \in tasks'[req[r].item]
    BY <1>8, <2>1, <2>6 DEF Goes, CreatesOne
  <2> QED BY <1>8, <2>1, <2>2, <2>3, <2>4, <2>5, <2>6 DEF LooksUp, GoesOn
<1>9. CASE Goes(r, "enqueue", r) /\ r \in problems'[req[r].item]
  BY <1>6, <1>9 DEF Goes, CreatesOne
<1>10. CASE Concludes(r, "failed")
  BY <1>1, <1>3, <1>10 DEF Concludes, CreatesOne, OutcomesStand
<1>11. CASE Concludes(r, req[r].found) /\ req[r].pc = "confirm" /\ UNCHANGED problemVars
  <2>1. req[r].found \in problems[req[r].item] \intersect tasks[req[r].item]
    BY <1>11, Working DEF CreatesOne
  <2> QED BY <1>11, <2>1 DEF Concludes, CreatesOne, OutcomesStand
<1> QED BY <1>4, <1>5, <1>7, <1>8, <1>9, <1>10, <1>11 DEF RequestChange

\* The steps of others keep it too.
LEMMA IdleStep ==
  ASSUME Typed, [Next]_vars, \A q \in Requests : ReservedIsHeld(q),
         NEW r \in Requests, CreatesOne(r), OutcomesStand(r), req'[r] = req[r],
         ~ (Insert(r) \/ CreateFails(r))
  PROVE  CreatesOne(r)' /\ OutcomesStand(r)'
<1>1. \A i \in req[r].reserved : problems'[i] = problems[i] /\ tasks[i] \subseteq tasks'[i]
  BY ReservedStands
<1>2. \A i \in Items : req[r].outcome[i] # "none" => i \in req[r].reserved
  BY Working
<1>3. OutcomesStand(r)'
  BY <1>1, <1>2 DEF OutcomesStand
<1>4. req[r].pc \in Creating => CreatesOne(r)'
  BY <1>1, Working DEF CreatesOne
<1>5. req[r].pc \notin Creating => CreatesOne(r)'
  BY Working DEF Creating, CreatesOne
<1> QED BY <1>3, <1>4, <1>5

\* An item has at most one problem, and a submitted item the one it names.
LEMMA ItemsStep ==
  ASSUME Typed, [Next]_vars, \A q \in Requests : ReservedIsHeld(q) /\ CreatesOne(q) /\ OutcomesStand(q),
         NEW i \in Items, AdmittedAs(i)
  PROVE  AdmittedAs(i)'
<1>1. item[i] \in ItemRecords /\ GoodItem(item[i])
  BY DEF Typed, TypeOK
<1>2. ASSUME NEW r \in Requests, Insert(r), req[r].item = i PROVE problems[i] = {}
  <2>1. req[r].pc = "insert" /\ req[r].found = NoRequest
    <3>1. req[r].pc = "insert"
      BY <1>2 DEF Insert
    <3> QED BY <3>1, Working
  <2> QED BY <1>2, <2>1 DEF CreatesOne
<1>3. \A p, q \in problems'[i] : p = q
  BY <1>2, ProblemChanges DEF AdmittedAs
<1>4. ASSUME item[i].status = "submitted" PROVE problems'[i] = problems[i]
  <2>1. ASSUME NEW r \in Requests, Insert(r) \/ CreateFails(r), req[r].item = i PROVE FALSE
    <3>1. i \in req[r].reserved
      BY <2>1, Working
    <3>2. item[i].token = r
      BY <3>1 DEF ReservedIsHeld
    <3> QED BY <1>1, <1>4, <3>2 DEF GoodItem
  <2> QED BY <2>1, ProblemChanges
<1>5. ASSUME item'[i].status = "submitted", item[i].status = "submitted"
      PROVE  item'[i].problem \in problems'[i] \intersect tasks'[i]
  <2>1. item'[i].problem = item[i].problem
    BY <1>5, ItemChanges, ChangedFields
  <2> QED BY <1>4, <1>5, <2>1, ProblemChanges DEF AdmittedAs
<1>6. ASSUME item'[i].status = "submitted", item[i].status # "submitted"
      PROVE  item'[i].problem \in problems'[i] \intersect tasks'[i]
  <2>1. \E r \in Requests : CompletedBy(i, r)
    BY <1>1, <1>6, ItemChanges, ZenonT(40)
    DEF ItemChange, Claimed, Extracted, LeasePassed, Edited, Deleted,
      Undone, Retried, ImageDeleted, ReservedBy, Reservable, ReservationPassed, ItemRecords, GoodItem
  <2>2. PICK r \in Requests : CompletedBy(i, r)
    BY <2>1
  <2>3. /\ req[r].outcome[i] \notin {"none", "failed"}
        /\ item'[i].problem = req[r].outcome[i]
    BY <1>6, <2>2, OutcomeFields DEF CompletedBy
  <2>4. UNCHANGED problemVars
    BY <2>2 DEF CompletedBy, Complete
  <2> QED BY <2>3, <2>4 DEF OutcomesStand
<1> QED BY <1>3, <1>5, <1>6 DEF AdmittedAs

LEMMA AdmissionStep == Typed /\ Admission /\ [Next]_vars => Admission'
<1> SUFFICES ASSUME Typed, Admission, [Next]_vars, stalls' = 0
             PROVE  /\ \A r \in Requests : (ReservedIsHeld(r) /\ CreatesOne(r) /\ OutcomesStand(r))'
                    /\ \A i \in Items : AdmittedAs(i)'
  BY DEF Admission
<1>1. stalls = 0
  BY BatchTyped DEF Typed, TypeOK
<1>2. /\ \A q \in Requests : ReservedIsHeld(q) /\ CreatesOne(q) /\ OutcomesStand(q)
      /\ \A i \in Items : AdmittedAs(i)
  BY <1>1 DEF Admission
<1>3. \A i \in Items : AdmittedAs(i)'
  BY <1>2, ItemsStep
<1>4. ASSUME NEW r \in Requests, Stored(r), RequestChange(r)
      PROVE  (ReservedIsHeld(r) /\ CreatesOne(r) /\ OutcomesStand(r))'
  <2>1. ASSUME NEW i \in req'[r].reserved
        PROVE  item'[i].token = r /\ item'[i].reservation = "live"
    <3>1. ~ Complete(r)
      <4>1. Complete(r) => req'[r].reserved = {}
        BY FinishMoves DEF Complete
      <4> QED BY <4>1
    <3>2. CASE i \in req[r].reserved
      BY <1>1, <1>2, <3>1, <3>2, HeldStays
    <3>3. CASE Reserve(r) /\ i = Min(req[r].todo) /\ Reservable(i)
      <4>1. i \in Items /\ item[i] \in ItemRecords
        BY <3>3, ReserveMoves DEF Typed, TypeOK
      <4>2. item' = [item EXCEPT ![i] = [item[i] EXCEPT !.token = r, !.reservation = "live"]]
        BY <3>3 DEF Reserve, Set
      <4> QED BY <4>1, <4>2 DEF ItemRecords, Typed, TypeOK
    <3> QED BY <1>4, <3>2, <3>3, ReservedBefore
  <2>2. ReservedIsHeld(r)'
    BY <2>1 DEF ReservedIsHeld
  <2> QED BY <1>2, <1>4, <2>2, ActingStep
<1>5. ASSUME NEW r \in Requests, req'[r] = req[r],
             ~ (Insert(r) \/ CreateFails(r) \/ Complete(r))
      PROVE  (ReservedIsHeld(r) /\ CreatesOne(r) /\ OutcomesStand(r))'
  <2>1. ReservedIsHeld(r)'
    BY <1>1, <1>2, <1>5, HeldStays DEF ReservedIsHeld
  <2> QED BY <1>2, <1>5, <2>1, IdleStep
<1>6. ASSUME NEW r \in Requests, Review(r) \/ Submit(r) \/ RequestCrash(r)
      PROVE  Stored(r) /\ RequestChange(r)
  BY <1>6, RequestChanges
<1>7. ASSUME NEW r \in Requests, ~ (Review(r) \/ Submit(r) \/ RequestCrash(r))
      PROVE  req'[r] = req[r] /\ ~ (Insert(r) \/ CreateFails(r) \/ Complete(r))
  <2>1. req'[r] = req[r]
    BY <1>6, <1>7, WorkerLeaves, TimeLeaves DEF Next, BatchExpires, vars, Stored
  <2> QED BY <1>7, <2>1 DEF Submit
<1> QED BY <1>3, <1>4, <1>5, <1>6, <1>7

\* However often an item is submitted, by overlapping requests or again after one
\* died or failed halfway, it has one problem, and once it is submitted that
\* problem is stored with its solution task: as long as no reservation or lease
\* has run out under its holder, whatever the bound on such stalls.
THEOREM AdmissionIsSingle == Spec => [](stalls = 0 => AdmittedOnce)
<1>1. Admission => (stalls = 0 => AdmittedOnce)
  BY AdmittedAsCounts DEF Admission
<1> QED BY <1>1, TypedAlways, AdmissionInit, AdmissionStep, PTL DEF Spec
=============================================================================
