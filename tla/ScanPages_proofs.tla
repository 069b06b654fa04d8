---------------------------- MODULE ScanPages_proofs ----------------------------
(***************************************************************************)
(* Proofs about cursor pagination, for any backend, page budget, limits    *)
(* and numbers of calls and changes.                                       *)
(*                                                                         *)
(* Scanning is about every backend: the cursors a scan asks for are among  *)
(* those it counts as seen, so a new one was never asked for.  Delivering  *)
(* is about a backend that keeps the list contract: what the caller has is *)
(* in order and complete up to its continuation, and what a scan has       *)
(* collected is so from the continuation to the cursor.                    *)
(***************************************************************************)
EXTENDS ScanPages, FiniteSetTheorems, TLAPS

\* What holds of a scan whatever the backend answers.
Scanning ==
    /\ Len(items) <= limit
    /\ Len(asked) <= MaxBackendPages
    /\ \A i, j \in DOMAIN asked : asked[i] = asked[j] => i = j
    /\ Running =>
        /\ Len(items) < limit
        /\ cursor \in seen \cup {Ended}
        /\ \A i \in DOMAIN asked : asked[i] \in seen \cup {Ended} /\ asked[i] # cursor
        /\ asked # << >> => cursor # Ended
        /\ pc = "check" => asked = << >>
    /\ pc = "more" => /\ Len(items) = limit /\ token # Ended
                      /\ \A i \in DOMAIN asked : asked[i] # token

\* A run of neighbours in s, each smaller than the one before it.
Descends(s, i, j) == \A k \in i..(j - 1) : s[k] > s[k + 1]

\* What holds of an honest backend's items: the ones collected lie between the
\* caller's continuation and the cursor, the ones delivered up to the continuation.
Ordered ==
    /\ Running =>
        /\ token <= cursor
        /\ \A i \in DOMAIN items : token < items[i] /\ items[i] <= cursor
        /\ \A i, j \in DOMAIN items : i < j => items[i] < items[j]
    /\ pc # "exhausted" => \A i \in DOMAIN delivered : delivered[i] <= token
    /\ \A i, j \in DOMAIN delivered : i < j =>
        \/ delivered[i] < delivered[j]
        \/ tool = "get_cron_history" /\ Descends(delivered, i, j)

In(k, s) == \E i \in DOMAIN s : s[i] = k

Complete ==
    /\ \A k \in steady : backend[k] = "match"
    /\ pc # "exhausted" => \A k \in steady : k <= token => In(k, delivered)
    /\ pc = "exhausted" => \A k \in steady : In(k, delivered)
    /\ Running => \A k \in steady : token < k /\ k <= cursor => In(k, items)

Inductive == TypeOK /\ Scanning /\ (~faulty => Ordered /\ Complete)
-------------------------------------------------------------------------------
(* The operators. *)

\* The members of a set of positions or keys in order: a sequence of its size.
LEMMA InOrderIsSeq ==
    ASSUME NEW n \in Nat, NEW S \in SUBSET (1..n), NEW f \in InOrder(S)
    PROVE  f \in Seq(S) /\ Len(f) = Cardinality(S) /\ Cardinality(S) <= n /\ DOMAIN f = 1..Len(f)
  <1>1. IsFiniteSet(1..n) /\ Cardinality(1..n) = n
    BY FS_Interval
  <1>2. Cardinality(S) \in Nat /\ Cardinality(S) <= n
    BY <1>1, FS_Subset, FS_CardinalityType
  <1>3. f \in [1..Cardinality(S) -> S]
    BY DEF InOrder
  <1>4. QED
    BY <1>2, <1>3

\* The projection keeps the wanted items of a page and no others, in their order.
LEMMA ProjectKeepsWanted ==
    ASSUME NEW page \in Seq(Keys), NEW kept \in Project(page)
    PROVE  /\ kept \in Seq(Keys) /\ Len(kept) <= Len(page)
           /\ \A i \in DOMAIN kept : In(kept[i], page)
           /\ \A k : In(k, page) /\ backend[k] = "match" => In(k, kept)
           /\ (\A i, j \in DOMAIN page : i < j => page[i] < page[j])
                 => \A i, j \in DOMAIN kept : i < j => kept[i] < kept[j]
  <1> DEFINE S == {i \in DOMAIN page : backend[page[i]] = "match"}
  <1>1. PICK pick \in InOrder(S) : kept = [i \in DOMAIN pick |-> page[pick[i]]]
    BY DEF Project
  <1>2. Len(page) \in Nat /\ DOMAIN page = 1..Len(page) /\ S \in SUBSET (1..Len(page))
    OBVIOUS
  <1>3. pick \in Seq(S) /\ Len(pick) <= Len(page) /\ DOMAIN pick = 1..Len(pick)
    BY <1>2, InOrderIsSeq
  <1>4. kept \in Seq(Keys) /\ Len(kept) = Len(pick) /\ DOMAIN kept = DOMAIN pick
    BY <1>1, <1>2, <1>3
  <1>5. \A i \in DOMAIN pick : pick[i] \in DOMAIN page /\ kept[i] = page[pick[i]]
    BY <1>1, <1>2, <1>3
  <1>6. \A k : In(k, page) /\ backend[k] = "match" => In(k, kept)
    <2> SUFFICES ASSUME NEW n \in DOMAIN page, backend[page[n]] = "match"
                 PROVE  In(page[n], kept)
      BY DEF In
    <2>1. PICK i \in DOMAIN pick : pick[i] = n
      BY <1>1 DEF InOrder
    <2>2. QED
      BY <1>4, <1>5, <2>1 DEF In
  <1>7. \A i, j \in DOMAIN pick : i < j => pick[i] < pick[j]
    BY <1>1 DEF InOrder
  <1>8. ASSUME \A i, j \in DOMAIN page : i < j => page[i] < page[j],
               NEW i \in DOMAIN kept, NEW j \in DOMAIN kept, i < j
        PROVE  kept[i] < kept[j]
    BY <1>4, <1>5, <1>7, <1>8
  <1>9. QED
    BY <1>3, <1>4, <1>5, <1>6, <1>8 DEF In

\* A backend that keeps the contract shows, in order, all it has between the cursor
\* and where it read to, and ends the list only where nothing is left.
LEMMA HonestAnswer ==
    ASSUME ScanPagesAssumption, NEW c \in Cursors, NEW n, NEW a \in HonestAnswers(c, n)
    PROVE  /\ a.page \in Seq(Keys) /\ a.next \in Cursors
           /\ \A i, j \in DOMAIN a.page : i < j => a.page[i] < a.page[j]
           /\ \E e \in (c + 1)..LastKey :
                /\ \A i \in DOMAIN a.page : c < a.page[i] /\ a.page[i] <= e
                /\ \A k \in Keys : c < k /\ k <= e /\ backend[k] = "match" => In(k, a.page)
                /\ IF a.next = Ended THEN \A k \in Keys : k > e => backend[k] # "match" ELSE a.next = e
  <1> DEFINE Shown(e) == {k \in (c + 1)..e : backend[k] \in {"match", "other"}}
             Rest(e)  == IF \E k \in (e + 1)..LastKey : backend[k] # "absent" THEN e ELSE Ended
  <1> USE ScanPagesAssumption DEF ScanPagesAssumption, Keys, Cursors, Ended
  <1>1. PICK e \in (c + 1)..LastKey : \E page \in InOrder(Shown(e)) : a = [page |-> page, next |-> Rest(e)]
    BY DEF HonestAnswers
  <1>2. PICK page \in InOrder(Shown(e)) : a = [page |-> page, next |-> Rest(e)]
    BY <1>1
  <1>3. LastKey \in Nat /\ Shown(e) \in SUBSET (1..LastKey)
    OBVIOUS
  <1>4. page \in Seq(Shown(e))
    BY <1>3, InOrderIsSeq
  <1>5. /\ \A i, j \in DOMAIN page : i < j => page[i] < page[j]
        /\ \A k \in Shown(e) : In(k, page)
    BY <1>2 DEF InOrder, In
  <1>6. \A i \in DOMAIN page : page[i] \in Shown(e)
    BY <1>4
  <1>7. a.page \in Seq(Keys)
    BY <1>2, <1>3, <1>4
  <1>8. a.next \in Cursors
    BY <1>2
  <1>9. IF a.next = Ended THEN \A k \in Keys : k > e => backend[k] # "match" ELSE a.next = e
    BY <1>2
  <1>10. \A i \in DOMAIN a.page : c < a.page[i] /\ a.page[i] <= e
    BY <1>2, <1>6
  <1>11. \A k \in Keys : c < k /\ k <= e /\ backend[k] = "match" => In(k, a.page)
    BY <1>2, <1>5
  <1>12. QED
    BY <1>2, <1>5, <1>7, <1>8, <1>9, <1>10, <1>11

\* Any answer is made of keys and a cursor.
LEMMA AnswerType ==
    ASSUME ScanPagesAssumption, TypeOK, Len(items) < limit, NEW a \in Answers(cursor, Remaining)
    PROVE  a.page \in Seq(Keys) /\ a.next \in Cursors
  <1>1. CASE faulty
    <2>1. PICK m \in {0, 1, Remaining, Remaining + 1}, k \in Keys, c \in Cursors :
              a = [page |-> [i \in 1..m |-> k], next |-> c]
      BY <1>1 DEF Answers, FaultyAnswers
    <2>2. m \in Nat
      BY DEF Remaining, TypeOK
    <2>3. QED
      BY <2>1, <2>2
  <1>2. CASE ~faulty
    BY <1>2, HonestAnswer DEF Answers, TypeOK
  <1>3. QED
    BY <1>1, <1>2

\* What is presented is what was found, from the last on when it is a history.
LEMMA PresentedIsFound ==
    ASSUME NEW found \in Seq(Keys)
    PROVE  /\ Presented(found) \in Seq(Keys) /\ Len(Presented(found)) = Len(found)
           /\ \A i \in DOMAIN found :
                Presented(found)[i] = IF tool = "get_cron_history" THEN found[Len(found) + 1 - i] ELSE found[i]
           /\ \A k : In(k, Presented(found)) <=> In(k, found)
  <1>1. Presented(found) \in Seq(Keys) /\ Len(Presented(found)) = Len(found)
    BY DEF Presented, Reverse
  <1>2. \A i \in DOMAIN found :
            Presented(found)[i] = IF tool = "get_cron_history" THEN found[Len(found) + 1 - i] ELSE found[i]
    <2>1. \A i \in DOMAIN found : Reverse(found)[i] = found[Len(found) + 1 - i]
      <3>1. \A i \in DOMAIN found : i \in 1..Len(found) /\ (Len(found) - i) + 1 = Len(found) + 1 - i
        OBVIOUS
      <3>2. QED
        BY <3>1 DEF Reverse
    <2>2. QED
      BY <2>1 DEF Presented
  <1>3. \A i \in DOMAIN found : Len(found) + 1 - i \in DOMAIN found /\ Len(found) + 1 - (Len(found) + 1 - i) = i
    OBVIOUS
  <1>4. DOMAIN Presented(found) = DOMAIN found
    BY <1>1
  <1>5. \A k : In(k, Presented(found)) <=> In(k, found)
    <2>1. CASE tool = "get_cron_history"
      BY <1>2, <1>3, <1>4, <2>1 DEF In
    <2>2. CASE tool # "get_cron_history"
      BY <1>2, <1>4, <2>2 DEF In
    <2>3. QED
      BY <2>1, <2>2
  <1>6. QED
    BY <1>1, <1>2, <1>5
-------------------------------------------------------------------------------
(* The invariant. *)

LEMMA InductiveInit == Init => Inductive
  BY ScanPagesAssumption
     DEF Init, Inductive, TypeOK, Scanning, Ordered, Complete, Running, Wanted, Keys, Cursors,
         ScanPagesAssumption, Ended, In

\* What a scan goes by changes only with a call, an answer or its end.
LEMMA CallKeeps == ASSUME Inductive, NEW n \in Limits, Call(n) PROVE Inductive'
  <1> USE ScanPagesAssumption DEF Inductive, ScanPagesAssumption
  <1>1. CASE LimitRefused(n)
    <2>1. TypeOK'
      BY <1>1 DEF Call, scan, TypeOK
    <2>2. Scanning'
      BY <1>1 DEF Call, scan, Scanning, Running
    <2>3. (~faulty => Ordered /\ Complete)'
      BY <1>1 DEF Call, scan, Ordered, Complete, Running
    <2>4. QED
      BY <2>1, <2>2, <2>3
  <1>2. CASE ~LimitRefused(n)
    <2>1. BoundedLimit(n) \in 1..MaximumLimit
      BY <1>2 DEF LimitRefused, BoundedLimit
    <2>2. TypeOK'
      BY <1>2, <2>1 DEF Call, TypeOK, FirstSeen, FirstCursor, Cursors, Keys, Ended
    <2>3. Scanning'
      BY <1>2, <2>1 DEF Call, Scanning, Running, FirstSeen, FirstCursor, TypeOK
    <2>4. (~faulty => Ordered /\ Complete)'
      BY <1>2 DEF Call, Ordered, Complete, Running, FirstCursor, TypeOK, Cursors, Keys
    <2>5. QED
      BY <2>2, <2>3, <2>4
  <1>3. QED
    BY <1>1, <1>2

\* A request goes out: within the budget, for a cursor not asked for before.
LEMMA AskKeeps ==
    ASSUME Inductive, pc = "fetch", ~BudgetSpent, asked' = Append(asked, cursor)
    PROVE  /\ asked' \in Seq(Cursors) /\ Len(asked') <= MaxBackendPages
           /\ \A i, j \in DOMAIN asked' : asked'[i] = asked'[j] => i = j
           /\ \A i \in DOMAIN asked' : asked'[i] \in seen \cup {Ended}
  <1>1. asked \in Seq(Cursors) /\ cursor \in Cursors
    BY DEF Inductive, TypeOK
  <1>2. /\ Len(asked') = Len(asked) + 1 /\ DOMAIN asked' = 1..(Len(asked) + 1)
        /\ \A i \in DOMAIN asked' : asked'[i] = IF i <= Len(asked) THEN asked[i] ELSE cursor
        /\ asked' \in Seq(Cursors)
    BY <1>1
  <1>3. Len(asked') <= MaxBackendPages
    BY <1>1, <1>2, ScanPagesAssumption DEF BudgetSpent, ScanPagesAssumption
  <1>4. /\ \A i, j \in DOMAIN asked : asked[i] = asked[j] => i = j
        /\ cursor \in seen \cup {Ended}
        /\ \A i \in DOMAIN asked : asked[i] \in seen \cup {Ended} /\ asked[i] # cursor
    BY DEF Inductive, Scanning, Running
  <1>5. DOMAIN asked = 1..Len(asked) /\ Len(asked) \in Nat
    BY <1>1
  <1>6. \A i \in DOMAIN asked' : asked'[i] \in seen \cup {Ended}
    BY <1>2, <1>4, <1>5
  <1>7. \A i, j \in DOMAIN asked' : asked'[i] = asked'[j] => i = j
    BY <1>2, <1>4, <1>5
  <1>8. QED
    BY <1>2, <1>3, <1>6, <1>7

LEMMA EndKeeps == ASSUME Inductive, GetCronWorkflow \/ OutOfBudget \/ FetchFails PROVE Inductive'
  <1> USE DEF Inductive
  <1> DEFINE bounded == /\ asked' \in Seq(Cursors) /\ Len(asked') <= MaxBackendPages
                        /\ \A i, j \in DOMAIN asked' : asked'[i] = asked'[j] => i = j
  <1>0. bounded
    <2>1. CASE FetchFails
      BY <2>1, AskKeeps DEF FetchFails
    <2>2. CASE ~FetchFails
      BY <2>2 DEF GetCronWorkflow, OutOfBudget, TypeOK, Scanning, scan
    <2>3. QED
      BY <2>1, <2>2
  <1>1. TypeOK'
    <2>1. pc' \in {"fetch", "error"}
      BY DEF GetCronWorkflow, OutOfBudget, FetchFails
    <2>2. UNCHANGED <<faulty, tool, backend, limit, items, seen, cursor, caller, changes, steady>>
      BY DEF GetCronWorkflow, OutOfBudget, FetchFails, scan
    <2>3. QED
      BY <1>0, <2>1, <2>2 DEF TypeOK, caller
  <1>2. Scanning'
    <2>1. CASE GetCronWorkflow
      BY <2>1 DEF GetCronWorkflow, Scanning, Running, scan, caller
    <2>2. CASE OutOfBudget \/ FetchFails
      BY <1>0, <2>2 DEF OutOfBudget, FetchFails, Scanning, Running, scan
    <2>3. QED
      BY <2>1, <2>2
  <1>3. (~faulty => Ordered /\ Complete)'
    BY DEF GetCronWorkflow, OutOfBudget, FetchFails, Ordered, Complete, Running, scan, caller
  <1>4. QED
    BY <1>1, <1>2, <1>3

LEMMA ChangeKeeps ==
    ASSUME Inductive, NEW k \in Keys, NEW kind \in Kinds \cup {"absent"}, Change(k, kind)
    PROVE  Inductive'
  <1> USE DEF Inductive, Change, scan, caller
  <1>1. TypeOK'
    BY DEF TypeOK
  <1>2. Scanning'
    BY DEF Scanning, Running
  <1>3. (~faulty => Ordered /\ Complete)'
    BY DEF Ordered, Complete, Running, TypeOK
  <1>4. QED
    BY <1>1, <1>2, <1>3

\* An answer that is refused ends the scan; the caller keeps its continuation.
LEMMA RejectedKeeps ==
    ASSUME Inductive, NEW a \in Answers(cursor, Remaining), Fetch(a), Rejected(a)
    PROVE  Inductive'
  <1> USE DEF Inductive
  <1>1. /\ pc = "fetch" /\ pc' = "error" /\ ~BudgetSpent /\ asked' = Append(asked, cursor)
        /\ UNCHANGED <<items, seen, cursor, token, delivered, faulty, tool, backend, limit, calls, changes, steady>>
    BY DEF Fetch
  <1>0. /\ asked' \in Seq(Cursors) /\ Len(asked') <= MaxBackendPages
        /\ \A i, j \in DOMAIN asked' : asked'[i] = asked'[j] => i = j
    BY <1>1, AskKeeps
  <1>2. TypeOK'
    BY <1>0, <1>1 DEF TypeOK
  <1>3. Scanning'
    BY <1>0, <1>1 DEF Scanning, Running
  <1>4. (~faulty => Ordered /\ Complete)'
    BY <1>1 DEF Ordered, Complete, Running
  <1>5. QED
    BY <1>2, <1>3, <1>4

\* An answer that is taken: the scan has more items and a cursor it never asked for.
LEMMA TakenKeeps ==
    ASSUME Inductive, NEW a \in Answers(cursor, Remaining), Fetch(a), ~Rejected(a)
    PROVE  Inductive'
  <1> USE ScanPagesAssumption DEF Inductive
  <1> DEFINE got(kept) == items \o kept
             goesOn(kept) == ~(Len(got(kept)) = limit \/ NoMore(a))
  <1>1. PICK kept \in Project(a.page) :
            /\ pc = "fetch" /\ ~BudgetSpent /\ asked' = Append(asked, cursor)
            /\ items' = got(kept) /\ seen' = seen \cup ({a.next} \ {Ended})
            /\ IF goesOn(kept)
               THEN cursor' = a.next /\ UNCHANGED <<pc, token, delivered>>
               ELSE /\ pc' = IF NoMore(a) THEN "exhausted" ELSE "more"
                    /\ token' = a.next /\ delivered' = delivered \o Presented(got(kept))
                    /\ UNCHANGED cursor
            /\ UNCHANGED <<faulty, tool, backend, limit, calls, changes, steady>>
    BY DEF Fetch
  <1>2. /\ Len(items) < limit /\ cursor \in seen \cup {Ended}
        /\ \A i \in DOMAIN asked : asked[i] \in seen \cup {Ended} /\ asked[i] # cursor
        /\ asked # << >> => cursor # Ended
    BY <1>1 DEF Scanning, Running
  <1>3. a.page \in Seq(Keys) /\ a.next \in Cursors
    BY <1>2, AnswerType
  <1>4. /\ kept \in Seq(Keys) /\ Len(kept) <= Len(a.page)
        /\ \A i \in DOMAIN kept : In(kept[i], a.page)
        /\ \A k : In(k, a.page) /\ backend[k] = "match" => In(k, kept)
        /\ (\A i, j \in DOMAIN a.page : i < j => a.page[i] < a.page[j])
              => \A i, j \in DOMAIN kept : i < j => kept[i] < kept[j]
    BY <1>1, <1>3, ProjectKeepsWanted
  <1>5. Len(a.page) <= limit - Len(items) /\ a.next \notin seen
    BY <1>3 DEF Rejected, Remaining, TypeOK
  <1>6. /\ got(kept) \in Seq(Keys) /\ Len(got(kept)) = Len(items) + Len(kept)
        /\ \A i \in DOMAIN got(kept) : got(kept)[i] = IF i <= Len(items) THEN items[i] ELSE kept[i - Len(items)]
        /\ \A i \in DOMAIN got(kept) : i > Len(items) => i - Len(items) \in DOMAIN kept
    BY <1>4 DEF TypeOK
  <1>7. Len(got(kept)) <= limit
    BY <1>4, <1>5, <1>6, <1>3 DEF TypeOK
  <1>8. /\ Presented(got(kept)) \in Seq(Keys) /\ Len(Presented(got(kept))) = Len(got(kept))
        /\ \A i \in DOMAIN got(kept) :
             Presented(got(kept))[i] =
                 IF tool = "get_cron_history" THEN got(kept)[Len(got(kept)) + 1 - i] ELSE got(kept)[i]
        /\ \A k : In(k, Presented(got(kept))) <=> In(k, got(kept))
    BY <1>6, PresentedIsFound
  <1> DEFINE found == got(kept)
             shown == Presented(found)
  <1> HIDE DEF found, shown
  <1>9. TypeOK'
    <2>1. found \in Seq(Keys) /\ shown \in Seq(Keys)
      BY <1>6, <1>8 DEF found, shown
    <2>2. items' = found /\ seen' = seen \cup ({a.next} \ {Ended})
      BY <1>1 DEF found
    <2>3. /\ pc' \in {"fetch", "exhausted", "more"}
          /\ cursor' \in {cursor, a.next} /\ token' \in {token, a.next}
          /\ delivered' \in {delivered, delivered \o shown}
      BY <1>1 DEF found, shown
    <2>4. asked' \in Seq(Cursors)
      BY <1>1, AskKeeps
    <2>5. seen' \subseteq Keys
      <3>1. a.next # Ended => a.next \in Keys
        BY <1>3 DEF Cursors, Keys, Ended, ScanPagesAssumption
      <3>2. seen \subseteq Keys
        BY DEF TypeOK
      <3>3. QED
        BY <2>2, <3>1, <3>2
    <2>6. delivered' \in Seq(Keys) /\ cursor' \in Cursors /\ token' \in Cursors
      <3>1. delivered \in Seq(Keys) /\ delivered \o shown \in Seq(Keys)
        BY <2>1 DEF TypeOK
      <3>2. QED
        BY <1>3, <2>3, <3>1 DEF TypeOK
    <2>7. QED
      BY <1>1, <2>1, <2>2, <2>3, <2>4, <2>5, <2>6 DEF TypeOK
  <1>10. Scanning'
    <2>1. /\ Len(asked') <= MaxBackendPages
          /\ \A i, j \in DOMAIN asked' : asked'[i] = asked'[j] => i = j
          /\ \A i \in DOMAIN asked' : asked'[i] \in seen \cup {Ended}
      BY <1>1, AskKeeps
    <2>2. Len(found) <= limit /\ Len(found) \in Nat /\ limit \in Nat
      BY <1>6, <1>7 DEF found, TypeOK
    <2>3. items' = found /\ limit' = limit
      BY <1>1 DEF found
    <2>4. CASE goesOn(kept)
      <3>1. /\ Len(found) # limit /\ a.next # Ended
            /\ cursor' = a.next /\ seen' = seen \cup {a.next} /\ pc' = "fetch"
        BY <1>1, <2>4 DEF found, NoMore
      <3>2. Running' => /\ Len(items') < limit'
                        /\ cursor' \in seen' \cup {Ended}
                        /\ \A i \in DOMAIN asked' : asked'[i] \in seen' \cup {Ended} /\ asked'[i] # cursor'
                        /\ asked' # << >> => cursor' # Ended
        BY <1>5, <2>1, <2>2, <2>3, <3>1
      <3>3. QED
        BY <2>1, <2>2, <2>3, <3>1, <3>2 DEF Scanning
    <2>5. CASE ~goesOn(kept)
      <3>1. /\ Len(found) = limit \/ a.next = Ended
            /\ token' = a.next /\ pc' = IF a.next = Ended THEN "exhausted" ELSE "more"
        BY <1>1, <2>5 DEF found, NoMore
      <3>2. ~Running'
        BY <3>1 DEF Running
      <3>3. pc' = "more" => /\ Len(items') = limit' /\ token' # Ended
                            /\ \A i \in DOMAIN asked' : asked'[i] # token'
        BY <1>5, <2>1, <2>3, <3>1
      <3>4. QED
        BY <2>1, <2>2, <2>3, <3>2, <3>3 DEF Scanning
    <2>6. QED
      BY <2>4, <2>5
  <1>11. ASSUME ~faulty
         PROVE  (Ordered /\ Complete)'
    <2>1. PICK e \in (cursor + 1)..LastKey :
              /\ \A i \in DOMAIN a.page : cursor < a.page[i] /\ a.page[i] <= e
              /\ \A k \in Keys : cursor < k /\ k <= e /\ backend[k] = "match" => In(k, a.page)
              /\ IF a.next = Ended THEN \A k \in Keys : k > e => backend[k] # "match" ELSE a.next = e
      BY <1>11, HonestAnswer DEF Answers, TypeOK
    <2>2. \A i, j \in DOMAIN a.page : i < j => a.page[i] < a.page[j]
      BY <1>11, HonestAnswer DEF Answers, TypeOK
    <2>3. Ordered /\ Complete
      BY <1>11
    <2>4. /\ token <= cursor
          /\ \A i \in DOMAIN items : token < items[i] /\ items[i] <= cursor
          /\ \A i, j \in DOMAIN items : i < j => items[i] < items[j]
          /\ \A k \in steady : token < k /\ k <= cursor => In(k, items)
      BY <1>1, <2>3 DEF Ordered, Complete, Running
    \* What is collected now lies between the continuation and e, in order, and is complete.
    <2>5. \A i \in DOMAIN kept : cursor < kept[i] /\ kept[i] <= e
      BY <1>4, <2>1 DEF In
    <2>6. /\ token \in Int /\ cursor \in Int /\ e \in Int /\ Len(items) \in Nat
          /\ \A i \in DOMAIN items : items[i] \in Int
          /\ \A i \in DOMAIN kept : kept[i] \in Int
          /\ \A i \in DOMAIN found : i \in Int
      BY <1>4, <1>6 DEF found, TypeOK, Cursors, Keys
    <2>7. \A i \in DOMAIN found : IF i <= Len(items) THEN i \in DOMAIN items /\ found[i] = items[i]
                                  ELSE i - Len(items) \in DOMAIN kept /\ found[i] = kept[i - Len(items)]
      BY <1>6 DEF found, TypeOK
    <2>8. \A i \in DOMAIN found : token < found[i] /\ found[i] <= e
      <3>1. cursor < e
        BY <2>6
      <3>2. QED
        BY <2>4, <2>5, <2>6, <2>7, <3>1
    <2>9. \A i, j \in DOMAIN found : i < j => found[i] < found[j]
      <3> SUFFICES ASSUME NEW i \in DOMAIN found, NEW j \in DOMAIN found, i < j PROVE found[i] < found[j]
        OBVIOUS
      <3>1. CASE j <= Len(items)
        BY <2>4, <2>6, <2>7, <3>1
      <3>2. CASE i <= Len(items) /\ j > Len(items)
        <4>1. found[i] = items[i] /\ i \in DOMAIN items
          BY <2>7, <3>2
        <4>2. found[j] = kept[j - Len(items)] /\ j - Len(items) \in DOMAIN kept
          BY <2>6, <2>7, <3>2
        <4>3. items[i] <= cursor /\ cursor < kept[j - Len(items)]
          BY <2>4, <2>5, <4>1, <4>2
        <4>4. items[i] \in Int /\ kept[j - Len(items)] \in Int /\ cursor \in Int
          BY <2>6, <4>1, <4>2
        <4>5. QED
          BY <4>1, <4>2, <4>3, <4>4
      <3>3. CASE i > Len(items)
        <4>1. found[i] = kept[i - Len(items)] /\ i - Len(items) \in DOMAIN kept
          BY <2>6, <2>7, <3>3
        <4>2. found[j] = kept[j - Len(items)] /\ j - Len(items) \in DOMAIN kept
          BY <2>6, <2>7, <3>3
        <4>3. i - Len(items) < j - Len(items)
          BY <2>6
        <4>4. QED
          BY <1>4, <2>2, <4>1, <4>2, <4>3
      <3>4. QED
        BY <2>6, <3>1, <3>2, <3>3
    <2>10. \A k \in steady : token < k /\ k <= e => In(k, found)
      <3> SUFFICES ASSUME NEW k \in steady, token < k, k <= e PROVE In(k, found)
        OBVIOUS
      <3>1. \A i \in DOMAIN items : i \in DOMAIN found /\ found[i] = items[i]
        BY <1>4, <1>6 DEF found, TypeOK
      <3>2. \A i \in DOMAIN kept : i + Len(items) \in DOMAIN found /\ found[i + Len(items)] = kept[i]
        BY <1>4, <1>6 DEF found, TypeOK
      <3>3. CASE k <= cursor
        BY <2>4, <3>1, <3>3 DEF In
      <3>4. CASE k > cursor
        <4>1. backend[k] = "match" /\ k \in Keys
          BY <2>3 DEF Complete, TypeOK
        <4>2. In(k, kept)
          BY <1>4, <2>1, <3>4, <4>1
        <4>3. QED
          BY <3>2, <4>2 DEF In
      <3>5. QED
        BY <3>3, <3>4 DEF TypeOK, Keys, Cursors
    <2>11. items' = found /\ e \in Nat /\ token \in Nat /\ cursor \in Nat /\ token < e
      BY <1>1, <2>4 DEF found, TypeOK, Cursors, ScanPagesAssumption
    <2>12. CASE goesOn(kept)
      <3>1. cursor' = e /\ UNCHANGED <<pc, token, delivered, steady, backend, tool>>
        BY <1>1, <2>1, <2>12 DEF NoMore
      <3>2. Ordered'
        BY <2>3, <2>8, <2>9, <2>11, <3>1 DEF Ordered, Running, Descends
      <3>3. Complete'
        BY <2>3, <2>10, <2>11, <3>1 DEF Complete, Running, In
      <3>4. QED
        BY <3>2, <3>3
    <2>13. CASE ~goesOn(kept)
      <3>1. /\ pc' = IF a.next = Ended THEN "exhausted" ELSE "more"
            /\ token' = a.next /\ delivered' = delivered \o shown
            /\ UNCHANGED <<cursor, steady, backend, tool>>
        BY <1>1, <2>13 DEF NoMore, found, shown
      <3>2. Complete'
        <4>1. \A k \in steady : k <= e => In(k, delivered')
          <5> SUFFICES ASSUME NEW k \in steady, k <= e PROVE In(k, delivered')
            OBVIOUS
          <5>1. CASE k <= token
            <6>1. In(k, delivered)
              BY <1>1, <2>3, <5>1 DEF Complete
            <6>2. \A i \in DOMAIN delivered : i \in DOMAIN delivered' /\ delivered'[i] = delivered[i]
              BY <1>8, <3>1 DEF shown, found, TypeOK
            <6>3. QED
              BY <6>1, <6>2 DEF In
          <5>2. CASE k > token
            <6>1. In(k, shown)
              BY <1>8, <2>10, <5>2 DEF found, shown
            <6>2. \A i \in DOMAIN shown : i + Len(delivered) \in DOMAIN delivered'
                                          /\ delivered'[i + Len(delivered)] = shown[i]
              BY <1>8, <3>1 DEF shown, found, TypeOK
            <6>3. QED
              BY <6>1, <6>2 DEF In
          <5>3. QED
            BY <5>1, <5>2 DEF TypeOK, Keys, Cursors
        <4>2. \A k \in steady : a.next = Ended => k <= e
          BY <2>1, <2>3 DEF Complete, TypeOK, Keys
        <4>3. QED
          BY <2>1, <2>3, <2>11, <3>1, <4>1, <4>2 DEF Complete, Running
      <3>3. Ordered'
        <4>1. /\ DOMAIN delivered = 1..Len(delivered) /\ Len(delivered) \in Nat /\ Len(found) \in Nat
              /\ DOMAIN found = 1..Len(found) /\ DOMAIN delivered' = 1..(Len(delivered) + Len(found))
              /\ \A i \in 1..Len(delivered) : delivered'[i] = delivered[i]
              /\ \A i \in 1..Len(found) :
                    delivered'[Len(delivered) + i] =
                        IF tool = "get_cron_history" THEN found[Len(found) + 1 - i] ELSE found[i]
          <5>1. /\ delivered \in Seq(Keys) /\ found \in Seq(Keys)
                /\ shown \in Seq(Keys) /\ Len(shown) = Len(found)
            BY <1>6, <1>8 DEF found, shown, TypeOK
          <5>2. \A i \in DOMAIN found :
                   shown[i] = IF tool = "get_cron_history" THEN found[Len(found) + 1 - i] ELSE found[i]
            BY <1>8 DEF found, shown
          <5>3. \A i \in 1..Len(found) : delivered'[Len(delivered) + i] = shown[i]
            BY <3>1, <5>1
          <5>4. \A i \in 1..Len(found) :
                   delivered'[Len(delivered) + i] =
                       IF tool = "get_cron_history" THEN found[Len(found) + 1 - i] ELSE found[i]
            <6>1. DOMAIN found = 1..Len(found)
              BY <5>1
            <6>2. QED
              BY <5>2, <5>3, <6>1
          <5>5. /\ DOMAIN delivered' = 1..(Len(delivered) + Len(found))
                /\ \A i \in 1..Len(delivered) : delivered'[i] = delivered[i]
            <6>1. delivered' = delivered \o shown
              BY <3>1
            <6>2. DOMAIN (delivered \o shown) = 1..(Len(delivered) + Len(found))
              BY <5>1
            <6>3. \A i \in 1..Len(delivered) : (delivered \o shown)[i] = delivered[i]
              BY <5>1
            <6>4. QED
              BY <6>1, <6>2, <6>3
          <5>6. QED
            BY <5>1, <5>4, <5>5
        <4>2. \A i \in DOMAIN delivered : delivered[i] <= token /\ delivered[i] \in Int
          BY <1>1, <2>3 DEF Ordered, TypeOK, Keys
        <4>3. \A i \in 1..Len(found) : found[i] \in Int
          BY <1>6 DEF found, Keys
        <4>4. \A i \in 1..Len(found) : /\ Len(found) + 1 - i \in 1..Len(found)
                                       /\ token < delivered'[Len(delivered) + i]
                                       /\ delivered'[Len(delivered) + i] <= e
          <5>1. \A i \in 1..Len(found) : Len(found) + 1 - i \in 1..Len(found)
            BY <4>1
          <5>2. \A i \in 1..Len(found) : \E j \in 1..Len(found) : delivered'[Len(delivered) + i] = found[j]
            BY <4>1, <5>1
          <5>3. QED
            BY <2>8, <4>1, <5>1, <5>2
        <4>5. \A i \in DOMAIN delivered' : i > Len(delivered) => i - Len(delivered) \in 1..Len(found)
                                             /\ Len(delivered) + (i - Len(delivered)) = i
          BY <4>1
        <4>6. \A i \in DOMAIN delivered' : i > Len(delivered) => token < delivered'[i] /\ delivered'[i] <= e
          BY <4>4, <4>5
        <4>7. pc' # "exhausted" => \A i \in DOMAIN delivered' : delivered'[i] <= token'
          BY <2>1, <2>11, <3>1, <4>1, <4>2, <4>6
        <4>8. ASSUME NEW i \in DOMAIN delivered', NEW j \in DOMAIN delivered', i < j
              PROVE  delivered'[i] < delivered'[j] \/ (tool = "get_cron_history" /\ Descends(delivered', i, j))
          <5>1. CASE j <= Len(delivered)
            <6>1. i \in DOMAIN delivered /\ j \in DOMAIN delivered
              BY <4>1, <4>8, <5>1
            <6>2. delivered[i] < delivered[j] \/ (tool = "get_cron_history" /\ Descends(delivered, i, j))
              BY <2>3, <4>8, <6>1 DEF Ordered
            <6>3. \A k \in i..(j - 1) : k \in 1..Len(delivered) /\ k + 1 \in 1..Len(delivered)
              BY <4>1, <6>1
            <6>4. Descends(delivered, i, j) => Descends(delivered', i, j)
              BY <4>1, <6>3 DEF Descends
            <6>5. QED
              BY <4>1, <6>1, <6>2, <6>4
          <5>2. CASE i <= Len(delivered) /\ j > Len(delivered)
            <6>1. delivered'[i] = delivered[i] /\ i \in DOMAIN delivered
              BY <4>1, <4>8, <5>2
            <6>2. delivered[i] <= token /\ delivered[i] \in Int
              BY <4>2, <6>1
            <6>3. token < delivered'[j] /\ delivered'[j] \in Int
              <7>1. token < delivered'[j]
                BY <4>6, <4>8, <5>2
              <7>2. delivered' \in Seq(Keys)
                BY <1>9 DEF TypeOK, Keys
              <7>3. QED
                BY <4>8, <7>1, <7>2 DEF Keys
            <6>4. QED
              BY <2>11, <6>1, <6>2, <6>3
          <5>3. CASE i > Len(delivered) /\ tool # "get_cron_history"
            <6>1. delivered'[i] = found[i - Len(delivered)] /\ delivered'[j] = found[j - Len(delivered)]
              BY <4>1, <4>5, <4>8, <5>3
            <6>2. /\ i - Len(delivered) \in DOMAIN found /\ j - Len(delivered) \in DOMAIN found
                  /\ i - Len(delivered) < j - Len(delivered)
              BY <4>1, <4>5, <4>8, <5>3
            <6>3. QED
              BY <2>9, <6>1, <6>2
          <5>4. CASE i > Len(delivered) /\ tool = "get_cron_history"
            <6> SUFFICES ASSUME NEW k \in i..(j - 1)
                         PROVE  delivered'[k] > delivered'[k + 1]
              BY <5>4 DEF Descends
            <6> DEFINE m == k - Len(delivered)
            <6>1. /\ m \in 1..Len(found) /\ m + 1 \in 1..Len(found)
                  /\ k = Len(delivered) + m /\ k + 1 = Len(delivered) + (m + 1)
              BY <4>1, <4>8, <5>4
            <6>2. delivered'[k] = found[Len(found) + 1 - m] /\ delivered'[k + 1] = found[Len(found) + 1 - (m + 1)]
              BY <4>1, <5>4, <6>1
            <6>3. /\ Len(found) + 1 - (m + 1) \in DOMAIN found /\ Len(found) + 1 - m \in DOMAIN found
                  /\ Len(found) + 1 - (m + 1) < Len(found) + 1 - m
              BY <4>1, <6>1
            <6>4. found[Len(found) + 1 - (m + 1)] < found[Len(found) + 1 - m]
              BY <2>9, <6>3
            <6>5. QED
              BY <4>1, <4>3, <6>2, <6>3, <6>4
          <5>5. QED
            BY <4>1, <4>8, <5>1, <5>2, <5>3, <5>4
        <4>9. ~Running'
          BY <3>1 DEF Running
        <4>10. QED
          BY <3>1, <4>7, <4>8, <4>9 DEF Ordered
      <3>4. QED
        BY <3>2, <3>3
    <2>14. QED
      BY <2>12, <2>13
  <1>12. faulty' = faulty
    BY <1>1
  <1>13. QED
    BY <1>9, <1>10, <1>11, <1>12

LEMMA InductiveStep == Inductive /\ [Next]_vars => Inductive'
  <1> SUFFICES ASSUME Inductive, [Next]_vars PROVE Inductive'
    OBVIOUS
  <1>1. CASE UNCHANGED vars
    BY <1>1 DEF vars, scan, caller, Inductive, TypeOK, Scanning, Ordered, Complete, Running, Descends, In
  <1>2. CASE \E n \in Limits : Call(n)
    BY <1>2, CallKeeps
  <1>3. CASE GetCronWorkflow \/ OutOfBudget \/ FetchFails
    BY <1>3, EndKeeps
  <1>4. CASE \E a \in Answers(cursor, Remaining) : Fetch(a)
    BY <1>4, RejectedKeeps, TakenKeeps
  <1>5. CASE \E k \in Keys, kind \in Kinds \cup {"absent"} : Change(k, kind)
    BY <1>5, ChangeKeeps
  <1>6. QED
    BY <1>1, <1>2, <1>3, <1>4, <1>5 DEF Next

THEOREM SpecInductive == Spec => []Inductive
  BY InductiveInit, InductiveStep, PTL DEF Spec

\* A scan ends within its limit and its budget, whatever the backend answers.
THEOREM ScansAreBounded == Spec => []ScanBounded
  <1>1. Inductive => ScanBounded
    BY DEF Inductive, Scanning, ScanBounded
  <1>2. QED
    BY <1>1, SpecInductive, PTL

\* What the caller is given is in backend order across its calls, nothing twice.
THEOREM DeliveredInOrder == Spec => []InBackendOrder
  <1>1. Inductive => InBackendOrder
    BY DEF Inductive, Ordered, InBackendOrder, Descends
  <1>2. QED
    BY <1>1, SpecInductive, PTL

\* The caller that reads to the end misses nothing that was there all along.
THEOREM DeliveredInFull == Spec => []NothingSkipped
  <1>1. Inductive => NothingSkipped
    BY DEF Inductive, Complete, NothingSkipped, In
  <1>2. QED
    BY <1>1, SpecInductive, PTL
===============================================================================
