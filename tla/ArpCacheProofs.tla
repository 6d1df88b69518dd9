--------------------------- MODULE ArpCacheProofs ---------------------------
(***************************************************************************)
(* Proofs about ArpCache for any number of entries, hosts and retries.     *)
(* The argument: an entry is filled inside the protected object, with both *)
(* of its addresses at once; outside it, the sender writes the address of  *)
(* one entry only, the free one of its last lookup, and leaves it          *)
(* half-filled.                                                            *)
(***************************************************************************)
EXTENDS ArpCache, WellFoundedInduction, TLAPS

\* The sender's pointers are set where the code follows them.
Pointers ==
  /\ pc # "idle" => dest \in Destinations
  /\ pc \in {"hit", "expired", "outstanding"} => found \in Entry
  /\ pc \in {"check", "retry", "claim", "mark"} /\ found = 0 => free \in Entry
  /\ pc = "claim" => found = 0

CacheInv == TypeOK /\ Pointers /\ FilledIsTrue

\* Entry e has the address of the destination, and no entry before it that is valid has.
First(e) == ip[e] = dest /\ \A x \in Matching(dest) : e <= x

\* What the sender read of the cache still holds unless the cache has been updated since,
\* which it will notice: no valid entry has its destination, and its free entry is
\* free; or its found entry is the first one; or, before it waits, the first one is
\* half-filled.
SenderKnows ==
  ~Cache_Updated =>
    /\ pc \in {"check", "retry", "claim", "mark"} /\ found = 0 =>
         Matching(dest) = {} /\ state[free] = "invalid"
    /\ pc = "mark" /\ found = 0 => ip[free] = dest
    /\ pc \in {"check", "expired", "retry", "mark"} /\ found # 0 => First(found)
    /\ pc = "check" /\ found # 0 => state[found] # "invalid"
    /\ pc = "outstanding" => state[found] = "half_filled" /\ First(found)
    /\ pc \in {"request", "send", "wait", "queued"} =>
         \E e \in Entry : state[e] = "half_filled" /\ First(e)

\* An open entry is closed by the sender when it passes or queues.
QueuedIsClosed == pc = "queued" => ~Cache_Updated

\* While nobody disturbs the subnet, replies and updates come only to a sender that has
\* asked and is about to wait or waits; at all other points every request has been
\* answered, and no entry is half-filled: there is none whose state the assertion reads.
Answered == asked = {} /\ \A e \in Entry : state[e] # "half_filled"

OnlyFirstHalfFilled == \A e \in Entry : state[e] = "half_filled" => First(e)

Calm ==
  ~disturbed =>
    /\ pc # "wait" => ~Cache_Updated
    /\ pc \notin {"request", "send", "wait", "queued"} => Answered
    /\ pc \notin {"outstanding", "assert_failed"}
    /\ pc = "wait" /\ Cache_Updated => Answered
    /\ pc \in {"request", "send"} => asked = {} /\ OnlyFirstHalfFilled
    /\ pc \in {"wait", "queued"} /\ ~Cache_Updated => asked = {dest} /\ OnlyFirstHalfFilled

WaitInv == SenderKnows /\ QueuedIsClosed /\ Calm

-----------------------------------------------------------------------------
(* Lemmas *)

\* A set of entries that is not empty has a least one.
LEMMA LeastEntry ==
  ASSUME NEW S \in SUBSET Entry, S # {}
  PROVE  Min(S) \in S /\ \A x \in S : Min(S) <= x
<1> DEFINE R == OpToRel(<, Nat)
<1>1. S \subseteq Nat
  BY Sizes DEF Entry
<1>2. PICK x \in S : \A y \in S : ~(<<y, x>> \in R)
  <2> HIDE DEF R
  <2> QED BY <1>1, NatLessThanWellFounded, WFMin DEF R
<1>3. ASSUME NEW y \in S PROVE x =< y
  <2>1. ~(y < x)
    BY <1>1, <1>2 DEF OpToRel
  <2> QED BY <1>1, <2>1
<1> QED BY <1>2, <1>3 DEF Min

\* Lookup_or_Allocate yields an entry: one that matches, or else one to be used.
LEMMA LookupYieldsEntry ==
  ASSUME NEW a
  PROVE  /\ Matching(a) # {} => FoundEntry(a) \in Entry /\ FreeEntry(a) = 0
         /\ Matching(a) = {} => FoundEntry(a) = 0 /\ FreeEntry(a) \in Entry
         /\ 0 \notin Entry /\ Entry \subseteq 0 .. Num_Entries
<1>1. Entry # {} /\ 0 \notin Entry /\ Entry \subseteq 0 .. Num_Entries
  BY Sizes DEF Entry
<1>2. Matching(a) \in SUBSET Entry /\ Invalid \in SUBSET Entry
  BY DEF Matching, Invalid
<1>3. /\ Matching(a) # {} => Min(Matching(a)) \in Entry
      /\ Invalid # {} => Min(Invalid) \in Entry
      /\ Min(Entry) \in Entry
  BY <1>1, <1>2, LeastEntry
<1> QED BY <1>1, <1>3 DEF FoundEntry, FreeEntry, LeastRecentlyUsed

-----------------------------------------------------------------------------
(* The steps *)

\* An update fills one entry with a host and its MAC address.
LEMMA UpdateStep ==
  ASSUME CacheInv, NEW a \in Hosts \cup {Own}, Update(a), UNCHANGED sender,
         answering' \subseteq Announcers \cup {Null}, asked' \subseteq Hosts,
         disturbed' \in BOOLEAN
  PROVE  CacheInv'
<1>1. PICK e \in Entry : Fill(e, a)
  BY LookupYieldsEntry DEF Update
<1>2. TypeOK'
  <2>1. UNCHANGED <<dest, found, free, retries, frame>>
    BY DEF sender
  <2>2. /\ ip' \in [Entry -> Hosts \cup {Own, Null}]
        /\ mac' \in [Entry -> Hosts \cup {Own, Null}]
        /\ state' \in [Entry -> States]
        /\ old' \in [Entry -> BOOLEAN]
    BY <1>1 DEF CacheInv, TypeOK, Fill, States
  <2>3. Cache_Updated' \in BOOLEAN /\ pc' \in Points
    BY DEF CacheInv, TypeOK, Update, OpenEntry, Points
  <2> QED BY <2>1, <2>2, <2>3 DEF CacheInv, TypeOK
<1>3. Pointers'
  BY DEF CacheInv, Pointers, Update, OpenEntry, sender
<1>4. FilledIsTrue'
  BY <1>1 DEF CacheInv, TypeOK, FilledIsTrue, Fill, Update, OpenEntry, sender
<1> QED BY <1>2, <1>3, <1>4 DEF CacheInv

\* What is kept of a request.
LEMMA LearnStep ==
  ASSUME CacheInv, NEW a \in Announcers \cup {Null}, Learn(a), UNCHANGED <<sender, asked>>,
         answering' \subseteq Announcers \cup {Null}
  PROVE  CacheInv'
<1>1. CASE a = Null
  BY <1>1 DEF Learn, entries, sender, CacheInv, TypeOK, Pointers, FilledIsTrue
<1>2. CASE a # Null
  BY <1>2, UpdateStep, Addresses DEF Learn, CacheInv, TypeOK
<1> QED BY <1>1, <1>2

\* A step of the sender.
LEMMA SenderStepKeeps ==
  ASSUME CacheInv, SenderStep
  PROVE  CacheInv'
<1> USE DEF CacheInv
<1>1. CASE Lookup
  <2>1. /\ found' \in 0 .. Num_Entries /\ free' \in 0 .. Num_Entries
        /\ found' = 0 => free' \in Entry
    BY <1>1, LookupYieldsEntry, Sizes DEF Lookup
  <2>2. /\ state' \in [Entry -> States]
        /\ \A e \in Entry : state'[e] = state[e] \/ state'[e] = "invalid"
    BY <1>1 DEF Lookup, AfterLookup, TypeOK, States
  <2>3. TypeOK'
    BY <1>1, <2>1, <2>2 DEF Lookup, TypeOK, Points
  <2>4. Pointers'
    BY <1>1, <2>1 DEF Lookup, Pointers
  <2>5. FilledIsTrue'
    BY <1>1, <2>2 DEF Lookup, FilledIsTrue
  <2> QED BY <2>3, <2>4, <2>5
<1>2. CASE CheckEntry
  <2>1. found = 0 \/ found \in Entry
    BY DEF TypeOK, Entry
  <2> QED BY <1>2, <2>1 DEF CheckEntry, entries, sender, TypeOK, Pointers, FilledIsTrue, Points
<1>3. CASE Hit
  BY <1>3, Sizes, Addresses DEF Hit, Return, entries, TypeOK, Pointers, FilledIsTrue, Points
<1>4. CASE Expired
  <2>1. /\ state' = [state EXCEPT ![found] = "invalid"] /\ pc' = "retry" /\ found \in Entry
        /\ 0 \notin Entry
        /\ UNCHANGED <<ip, mac, old, Cache_Updated, dest, found, free, retries, frame, answering,
                       asked, disturbed>>
    BY <1>4, Sizes DEF Expired, sender, Pointers, Entry
  <2>2. TypeOK'
    BY <2>1 DEF TypeOK, Points, States
  <2>3. Pointers'
    BY <1>4, <2>1 DEF Expired, Pointers
  <2>4. FilledIsTrue'
    BY <1>4 DEF Expired, sender, FilledIsTrue, TypeOK
  <2> QED BY <2>2, <2>3, <2>4
<1>5. CASE Unreachable
  BY <1>5, Sizes DEF Unreachable, Return, entries, TypeOK, Pointers, FilledIsTrue, Points
<1>6. CASE CountRetry
  BY <1>6, Sizes DEF CountRetry, entries, TypeOK, Pointers, FilledIsTrue, Points
<1>7. CASE Claim
  <2>1. /\ ip' = [ip EXCEPT ![free] = dest] /\ pc' = "mark"
        /\ UNCHANGED <<mac, state, old, Cache_Updated, dest, found, free, retries, frame,
                       answering, asked, disturbed>>
    BY <1>7 DEF Claim, sender
  <2>2. dest \in Hosts /\ found = 0 /\ free \in Entry /\ pc = "claim"
    BY <1>7, Addresses DEF Claim, Pointers
  <2>3. ip' \in [Entry -> Hosts \cup {Own, Null}]
    BY <2>1, <2>2 DEF TypeOK
  <2>4. TypeOK'
    BY <2>1, <2>3 DEF TypeOK, Points
  <2>5. Pointers'
    BY <2>1, <2>2 DEF Pointers
  <2>6. FilledIsTrue'
    BY <2>1, <2>2 DEF FilledIsTrue, TypeOK
  <2> QED BY <2>4, <2>5, <2>6
<1>8. CASE Mark
  BY <1>8 DEF Mark, sender, TypeOK, Pointers, FilledIsTrue, Points, States
<1>9. CASE Send_ARP_Request
  BY <1>9, Addresses DEF Send_ARP_Request, entries, sender, TypeOK, Pointers, FilledIsTrue, Points
<1>10. CASE Wait_Until_Cache_Updated
  BY <1>10 DEF Wait_Until_Cache_Updated, entries, sender, TypeOK, Pointers, FilledIsTrue, Points
<1>11. CASE CheckRequest
  <2>1. 0 \notin Entry
    BY Sizes DEF Entry
  <2> QED BY <1>11, <2>1 DEF CheckRequest, entries, sender, TypeOK, Pointers, FilledIsTrue, Points
<1> QED BY <1>1, <1>2, <1>3, <1>4, <1>5, <1>6, <1>7, <1>8, <1>9, <1>10, <1>11
       DEF SenderStep

-----------------------------------------------------------------------------
(* The invariant and what follows from it *)

\* The invariant holds initially and every step preserves it.
LEMMA CacheInvCorrect == Spec => []CacheInv
<1>1. Init => CacheInv
  <2> SUFFICES ASSUME Init PROVE CacheInv
    OBVIOUS
  <2>1. frame \in [to : Destinations \cup {Null}, mac : Hosts \cup {Own, Null}]
    BY DEF Init, NoFrame
  <2>2. 0 \in 0 .. Num_Entries /\ 0 \in 0 .. Max_Retries
    BY Sizes
  <2>3. /\ ip \in [Entry -> Hosts \cup {Own, Null}] /\ mac \in [Entry -> Hosts \cup {Own, Null}]
         /\ state \in [Entry -> States] /\ old \in [Entry -> BOOLEAN]
    BY DEF Init, States
  <2>4. TypeOK
    BY <2>1, <2>2, <2>3 DEF Init, TypeOK, Points
  <2>5. Pointers
    BY DEF Init, Pointers
  <2>6. FilledIsTrue
    BY DEF Init, FilledIsTrue
  <2> QED BY <2>4, <2>5, <2>6 DEF CacheInv
<1>2. CacheInv /\ [Next]_vars => CacheInv'
  <2> SUFFICES ASSUME CacheInv, [Next]_vars
               PROVE  CacheInv'
    OBVIOUS
  <2>1. CASE \E d \in Destinations : Resolve(d)
    BY <2>1, Addresses DEF Resolve, NoFrame, entries, CacheInv, TypeOK, Pointers, FilledIsTrue, Points
  <2>2. CASE SenderStep
    BY <2>2, SenderStepKeeps
  <2>3. ASSUME NEW src \in Announcers, NEW dst \in Hosts \cup {Own}, ReceiveRequest(src, dst)
        PROVE  CacheInv'
    <3>1. CASE dst = Own
      BY <2>3, <3>1 DEF ReceiveRequest, Kept, entries, sender, CacheInv, TypeOK, Pointers, FilledIsTrue
    <3>2. CASE dst # Own
      BY <2>3, <3>2, LearnStep DEF ReceiveRequest, Kept, CacheInv, TypeOK
    <3> QED BY <3>1, <3>2
  <2>4. ASSUME NEW src \in Hosts, ReceiveReply(src)
        PROVE  CacheInv'
    BY <2>4, UpdateStep DEF ReceiveReply, CacheInv, TypeOK
  <2>5. CASE Lose
    BY <2>5 DEF Lose, entries, sender, CacheInv, TypeOK, Pointers, FilledIsTrue
  <2>6. CASE \E e \in Entry : Age(e)
    BY <2>6 DEF Age, sender, CacheInv, TypeOK, Pointers, FilledIsTrue
  <2>7. CASE UNCHANGED vars
    BY <2>7 DEF vars, entries, sender, CacheInv, TypeOK, Pointers, FilledIsTrue
  <2>8. CASE Send_ARP_Reply
    BY <2>8, LearnStep DEF Send_ARP_Reply, CacheInv, TypeOK
  <2>9. CASE Allocate_Tx_Packet
    BY <2>9 DEF Allocate_Tx_Packet, entries, sender, CacheInv, TypeOK, Pointers, FilledIsTrue, Points
  <2> QED BY <2>1, <2>2, <2>3, <2>4, <2>5, <2>6, <2>7, <2>8, <2>9 DEF Next
<1> QED BY <1>1, <1>2, PTL DEF Spec

\* The fields of the cache and the variables of the call keep their types; the retries
\* of a call never exceed ARP_Request_Max_Retries.
THEOREM TypeCorrect == Spec => []TypeOK
<1>1. CacheInv => TypeOK
  BY DEF CacheInv
<1> QED BY <1>1, CacheInvCorrect, PTL

\* A filled entry holds the MAC address of the host it names, but for the moment in
\* which the sender claims an entry that the receiver has taken since its lookup.
THEOREM FilledCorrect == Spec => []FilledIsTrue
<1>1. CacheInv => FilledIsTrue
  BY DEF CacheInv
<1> QED BY <1>1, CacheInvCorrect, PTL

-----------------------------------------------------------------------------
(* What the sender knows when it waits *)

\* Two first entries are the same.
LEMMA FirstIsOne ==
  ASSUME NEW d \in Entry, NEW e \in Entry, First(d), First(e),
         state[d] # "invalid", state[e] # "invalid"
  PROVE  d = e
<1>1. d \in Matching(dest) /\ e \in Matching(dest)
  BY DEF First, Matching
<1>2. d <= e /\ e <= d
  BY <1>1 DEF First
<1> QED BY <1>2 DEF Entry

\* The entry the sender marks becomes the first one of its destination.
LEMMA MarkedIsFirst ==
  ASSUME CacheInv, SenderKnows, Mark, ~Cache_Updated
  PROVE  \E e \in Entry : state' = [state EXCEPT ![e] = "half_filled"] /\ First(e)'
<1>1. PICK e \in Entry : e = IF found = 0 THEN free ELSE found
  BY DEF Mark, CacheInv, Pointers, TypeOK, Entry
<1>2. state' = [state EXCEPT ![e] = "half_filled"] /\ UNCHANGED <<ip, dest>>
  BY <1>1 DEF Mark, sender
<1>3. ip[e] = dest /\ \A x \in Matching(dest) : e <= x
  BY <1>1 DEF SenderKnows, Mark, First
<1>4. \A x \in Matching(dest)' : x = e \/ x \in Matching(dest)
  BY <1>1, <1>2 DEF Matching, CacheInv, TypeOK
<1>5. e <= e
  BY <1>1 DEF Entry
<1>6. First(e)'
  BY <1>2, <1>3, <1>4, <1>5 DEF First
<1> QED BY <1>2, <1>6

\* What the sender knows stays true over its own steps.
LEMMA SenderStepKnows ==
  ASSUME CacheInv, SenderKnows, SenderStep
  PROVE  SenderKnows'
<1> USE DEF CacheInv
<1>1. CASE Lookup
  <2>1. 0 \notin Entry /\ Matching(dest) \in SUBSET Entry
    BY Sizes DEF Entry, Matching
  <2>2. CASE Matching(dest) = {}
    <3>1. found' = 0 /\ free' \in Entry /\ state' = [state EXCEPT ![free'] = "invalid"]
      BY <1>1, <2>2, LookupYieldsEntry DEF Lookup, AfterLookup
    <3>2. dest' = dest /\ ip' = ip /\ pc' = "check"
      BY <1>1 DEF Lookup
    <3>3. Matching(dest)' = {}
      BY <2>2, <3>1, <3>2 DEF Matching, TypeOK
    <3>4. state'[free'] = "invalid"
      BY <3>1 DEF TypeOK
    <3> QED BY <3>1, <3>2, <3>3, <3>4 DEF SenderKnows
  <2>3. CASE Matching(dest) # {}
    <3>1. found' = Min(Matching(dest)) /\ pc' = "check" /\ UNCHANGED <<dest, ip, state>>
      BY <1>1, <2>3 DEF Lookup, FoundEntry, AfterLookup
    <3>2. found' \in Matching(dest) /\ \A x \in Matching(dest) : found' <= x
      BY <2>1, <2>3, <3>1, LeastEntry
    <3>3. found' # 0 /\ ip'[found'] = dest' /\ state'[found'] # "invalid"
      BY <2>1, <3>1, <3>2 DEF Matching
    <3>4. First(found)'
      BY <3>1, <3>2, <3>3 DEF First, Matching
    <3> QED BY <3>1, <3>3, <3>4 DEF SenderKnows
  <2> QED BY <2>2, <2>3
<1>2. CASE CheckEntry
  <2>1. UNCHANGED <<ip, mac, state, dest, found, free, Cache_Updated>> /\ pc = "check"
    BY <1>2 DEF CheckEntry, entries, sender
  <2>2. /\ Matching(dest)' = Matching(dest)
        /\ \A e : First(e)' <=> First(e)
    BY <2>1 DEF Matching, First
  <2>3. pc' \in {"retry", "expired", "hit", "outstanding"}
    BY <1>2 DEF CheckEntry
  <2>4. pc' \in {"expired", "hit", "outstanding"} => found \in Entry /\ found # 0
    BY <1>2 DEF CheckEntry, TypeOK, Entry
  <2>5. pc' = "outstanding" /\ state[found] # "invalid" => state[found] = "half_filled"
    BY <1>2, <2>4 DEF CheckEntry, TypeOK, States
  <2>6. pc' = "outstanding" => found # 0
    BY <2>4
  <2> QED BY <2>1, <2>2, <2>3, <2>4, <2>5, <2>6 DEF SenderKnows
<1>3. CASE Hit \/ Unreachable
  BY <1>3 DEF Hit, Unreachable, Return, SenderKnows
<1>4. CASE Expired
  <2>1. /\ pc = "expired" /\ pc' = "retry" /\ found \in Entry /\ found # 0
        /\ state' = [state EXCEPT ![found] = "invalid"]
        /\ UNCHANGED <<ip, dest, found, free, Cache_Updated>>
    BY <1>4, Sizes DEF Expired, sender, Pointers, Entry
  <2>2. Matching(dest)' \subseteq Matching(dest)
    BY <2>1 DEF Matching, TypeOK
  <2>3. First(found) => First(found)'
    BY <2>1, <2>2 DEF First
  <2> QED BY <2>1, <2>3 DEF SenderKnows
<1>5. CASE CountRetry
  <2>1. /\ pc = "retry" /\ pc' = IF found = 0 THEN "claim" ELSE "mark"
        /\ UNCHANGED <<ip, state, dest, found, free, Cache_Updated>>
    BY <1>5 DEF CountRetry, entries
  <2>2. Matching(dest)' = Matching(dest) /\ (First(found)' <=> First(found))
    BY <2>1 DEF Matching, First
  <2> QED BY <2>1, <2>2 DEF SenderKnows
<1>6. CASE Claim
  <2>1. /\ pc = "claim" /\ pc' = "mark" /\ found = 0 /\ free \in Entry
        /\ ip' = [ip EXCEPT ![free] = dest]
        /\ UNCHANGED <<state, dest, found, free, Cache_Updated>>
    BY <1>6 DEF Claim, sender, Pointers
  <2>2. ip'[free] = dest
    BY <2>1 DEF TypeOK
  <2>3. state[free] = "invalid" /\ Matching(dest) = {} => Matching(dest)' = {}
    BY <2>1 DEF Matching, TypeOK
  <2> QED BY <2>1, <2>2, <2>3 DEF SenderKnows
<1>7. CASE Mark
  <2>1. pc' = "request" /\ Cache_Updated' = Cache_Updated
    BY <1>7 DEF Mark
  <2>2. ASSUME ~Cache_Updated
        PROVE  (\E e \in Entry : state[e] = "half_filled" /\ First(e))'
    <3>1. PICK e \in Entry : state' = [state EXCEPT ![e] = "half_filled"] /\ First(e)'
      BY <1>7, <2>2, MarkedIsFirst
    <3>2. state'[e] = "half_filled"
      BY <3>1 DEF TypeOK
    <3> QED BY <3>1, <3>2
  <2> QED BY <2>1, <2>2 DEF SenderKnows
<1>8. CASE Send_ARP_Request \/ Wait_Until_Cache_Updated
  <2>1. /\ pc \in {"send", "wait"} /\ pc' \in {"wait", "queued", "lookup"}
        /\ pc' = "queued" => ~Cache_Updated
        /\ pc' = "wait" => Cache_Updated' = Cache_Updated
        /\ UNCHANGED <<ip, state, dest>>
    BY <1>8 DEF Send_ARP_Request, Wait_Until_Cache_Updated, entries, sender
  <2>2. \A e : First(e)' <=> First(e)
    BY <2>1 DEF First, Matching
  <2> QED BY <2>1, <2>2 DEF SenderKnows
<1>9. CASE CheckRequest
  <2>1. UNCHANGED <<ip, state, dest, found, free, Cache_Updated>> /\ pc = "outstanding"
    BY <1>9 DEF CheckRequest, entries, sender
  <2>2. \A e : First(e)' <=> First(e)
    BY <2>1 DEF Matching, First
  <2>3. found \in Entry /\ found # 0
    BY <2>1, Sizes DEF Pointers, Entry
  <2>4. pc' \in {"assert_failed", "retry", "wait"}
    BY <1>9 DEF CheckRequest
  <2> QED BY <2>1, <2>2, <2>3, <2>4 DEF SenderKnows
<1> QED BY <1>1, <1>2, <1>3, <1>4, <1>5, <1>6, <1>7, <1>8, <1>9 DEF SenderStep

\* Every step keeps what the sender knows, or tells it: an update opens the entry, or
\* sends the task queued there back to its lookup.
LEMMA EveryStepKnows ==
  ASSUME CacheInv, SenderKnows, [Next]_vars
  PROVE  SenderKnows'
<1>1. CASE SenderStep
  BY <1>1, SenderStepKnows
<1>2. CASE \E d \in Destinations : Resolve(d)
  BY <1>2 DEF Resolve, SenderKnows
<1>3. ASSUME NEW a, Update(a) PROVE SenderKnows'
  BY <1>3 DEF Update, OpenEntry, SenderKnows
<1>4. CASE UNCHANGED <<ip, state, Cache_Updated, pc, dest, found, free>>
  <2>1. Matching(dest)' = Matching(dest) /\ \A e : First(e)' <=> First(e)
    BY <1>4 DEF Matching, First
  <2> QED BY <1>4, <2>1 DEF SenderKnows
<1>5. CASE Lose \/ (\E e \in Entry : Age(e)) \/ UNCHANGED vars
  BY <1>4, <1>5 DEF Lose, Age, vars, entries, sender
<1>6. ASSUME NEW src \in Announcers, NEW dst \in Hosts \cup {Own}, ReceiveRequest(src, dst)
      PROVE  SenderKnows'
  BY <1>3, <1>4, <1>6 DEF ReceiveRequest, Learn, entries, sender
<1>7. CASE \E src \in Hosts : ReceiveReply(src)
  BY <1>3, <1>7 DEF ReceiveReply
<1>8. CASE Send_ARP_Reply
  BY <1>3, <1>4, <1>8 DEF Send_ARP_Reply, Learn, entries, sender
<1>9. CASE Allocate_Tx_Packet
  <2>1. UNCHANGED <<ip, state, dest, found, free, Cache_Updated>> /\ pc = "request" /\ pc' = "send"
    BY <1>9 DEF Allocate_Tx_Packet, entries, sender
  <2>2. \A e : First(e)' <=> First(e)
    BY <2>1 DEF First, Matching
  <2> QED BY <2>1, <2>2 DEF SenderKnows
<1> QED BY <1>1, <1>2, <1>5, <1>6, <1>7, <1>8, <1>9 DEF Next

\* The entry of the protected object is closed behind the sender.
LEMMA EveryStepCloses ==
  ASSUME QueuedIsClosed, [Next]_vars
  PROVE  QueuedIsClosed'
BY DEF QueuedIsClosed, Next, Resolve, SenderStep, Lookup, CheckEntry, CheckRequest, Hit, Expired,
       Unreachable, CountRetry, Claim, Mark, Allocate_Tx_Packet, Send_ARP_Request,
       Wait_Until_Cache_Updated, Return, ReceiveRequest, Learn, Send_ARP_Reply, ReceiveReply,
       Update, OpenEntry, Lose, Age, vars

\* The sender alone: it makes no entry half-filled but the first one of its destination,
\* which it then asks for.
LEMMA SenderStepCalm ==
  ASSUME CacheInv, SenderKnows, Calm, SenderStep, ~disturbed
  PROVE  Calm'
<1> USE DEF CacheInv
<1>1. CASE Lookup
  <2>1. /\ ~Cache_Updated /\ Answered /\ pc' = "check" /\ UNCHANGED <<Cache_Updated, asked>>
    BY <1>1 DEF Calm, Lookup
  <2>2. \A e \in Entry : state'[e] = state[e] \/ state'[e] = "invalid"
    BY <1>1 DEF Lookup, AfterLookup, TypeOK
  <2>3. Answered'
    BY <2>1, <2>2 DEF Answered
  <2> QED BY <2>1, <2>3 DEF Calm
<1>2. CASE CheckEntry
  <2>1. ~Cache_Updated /\ Answered /\ pc = "check" /\ UNCHANGED <<Cache_Updated, asked, state>>
    BY <1>2 DEF Calm, CheckEntry, entries
  <2>2. pc' # "outstanding"
    <3>1. pc' = "outstanding" => found # 0 /\ state[found] # "filled"
      BY <1>2 DEF CheckEntry
    <3>2. found # 0 => found \in Entry /\ state[found] # "invalid" /\ state[found] # "half_filled"
      BY <2>1 DEF Answered, SenderKnows, TypeOK, Entry
    <3>3. found # 0 => state[found] = "filled"
      BY <3>2 DEF TypeOK, States
    <3> QED BY <3>1, <3>3
  <2>3. pc' \in {"retry", "expired", "hit"}
    BY <1>2, <2>2 DEF CheckEntry
  <2>4. Answered'
    BY <2>1 DEF Answered
  <2> QED BY <2>1, <2>3, <2>4 DEF Calm
<1>3. CASE Hit \/ Unreachable \/ CountRetry \/ Claim
  <2>1. /\ ~Cache_Updated /\ Answered /\ UNCHANGED <<Cache_Updated, asked, state>>
        /\ pc' \in {"idle", "claim", "mark"}
    BY <1>3 DEF Calm, Hit, Unreachable, CountRetry, Claim, Return, entries
  <2>2. Answered'
    BY <2>1 DEF Answered
  <2> QED BY <2>1, <2>2 DEF Calm
<1>4. CASE Expired
  <2>1. ~Cache_Updated /\ Answered /\ UNCHANGED <<Cache_Updated, asked>> /\ pc' = "retry"
    BY <1>4 DEF Calm, Expired
  <2>2. \A e \in Entry : state'[e] = state[e] \/ state'[e] = "invalid"
    BY <1>4 DEF Expired, TypeOK
  <2>3. Answered'
    BY <2>1, <2>2 DEF Answered
  <2> QED BY <2>1, <2>3 DEF Calm
<1>5. CASE Mark
  <2>1. ~Cache_Updated /\ Answered /\ UNCHANGED <<Cache_Updated, asked, disturbed>> /\ pc' = "request"
    BY <1>5 DEF Calm, Mark
  <2>3. PICK d \in Entry : state' = [state EXCEPT ![d] = "half_filled"] /\ First(d)'
    BY <1>5, <2>1, MarkedIsFirst
  <2>4. \A e \in Entry : state'[e] = "half_filled" => e = d
    BY <2>1, <2>3 DEF Answered, TypeOK
  <2>5. OnlyFirstHalfFilled'
    <3>1. SUFFICES ASSUME NEW e \in Entry, state'[e] = "half_filled" PROVE First(e)'
      BY DEF OnlyFirstHalfFilled
    <3>2. e = d
      BY <2>4, <3>1
    <3> QED BY <2>3, <3>2
  <2> QED BY <2>1, <2>5 DEF Calm, Answered
<1>6. CASE Send_ARP_Request \/ Wait_Until_Cache_Updated
  <2>1. UNCHANGED <<ip, state, dest, disturbed>>
    BY <1>6 DEF Send_ARP_Request, Wait_Until_Cache_Updated, entries, sender
  <2>2. (OnlyFirstHalfFilled' <=> OnlyFirstHalfFilled)
    BY <2>1 DEF OnlyFirstHalfFilled, First, Matching
  <2>3. CASE Send_ARP_Request
    <3>1. /\ ~Cache_Updated /\ asked = {} /\ OnlyFirstHalfFilled
          /\ pc' = "wait" /\ asked' = {dest} /\ Cache_Updated' = Cache_Updated
      BY <2>3 DEF Calm, Send_ARP_Request
    <3> QED BY <2>1, <2>2, <3>1 DEF Calm
  <2>4. CASE Wait_Until_Cache_Updated
    <3>1. ~Cache_Updated' /\ asked' = asked /\ pc = "wait"
      BY <2>4 DEF Wait_Until_Cache_Updated
    <3>2. CASE Cache_Updated
      <4>1. pc' = "lookup" /\ Answered
        BY <2>4, <3>2 DEF Wait_Until_Cache_Updated, Calm
      <4> QED BY <2>1, <3>1, <4>1 DEF Calm, Answered
    <3>3. CASE ~Cache_Updated
      <4>1. pc' = "queued" /\ asked = {dest} /\ OnlyFirstHalfFilled
        BY <2>4, <3>3 DEF Wait_Until_Cache_Updated, Calm
      <4> QED BY <2>1, <2>2, <3>1, <4>1 DEF Calm
    <3> QED BY <3>2, <3>3
  <2> QED BY <1>6, <2>3, <2>4
<1>7. CASE CheckRequest
  BY <1>7 DEF CheckRequest, Calm
<1> QED BY <1>1, <1>2, <1>3, <1>4, <1>5, <1>6, <1>7 DEF SenderStep

\* The reply: it can only be the one the sender waits for, and it fills the entry that
\* is half-filled.
LEMMA ReplyCalm ==
  ASSUME CacheInv, SenderKnows, QueuedIsClosed, Calm, ~disturbed,
         NEW src \in Hosts, ReceiveReply(src)
  PROVE  Calm'
<1> USE DEF CacheInv
<1>1. pc \in {"wait", "queued"} /\ ~Cache_Updated /\ asked = {dest} /\ src = dest
      /\ OnlyFirstHalfFilled
  BY DEF Calm, ReceiveReply, Answered, QueuedIsClosed
<1>2. PICK d \in Entry : state[d] = "half_filled" /\ First(d)
  BY <1>1 DEF SenderKnows
<1>3. FoundEntry(dest) = d /\ Matching(dest) # {}
  <2>1. d \in Matching(dest) /\ Matching(dest) \in SUBSET Entry
    BY <1>2 DEF First, Matching
  <2>2. Min(Matching(dest)) \in Entry /\ Min(Matching(dest)) <= d /\ d <= Min(Matching(dest))
    BY <1>2, <2>1, LeastEntry DEF First
  <2> DEFINE l == Min(Matching(dest))
  <2>3. l = d
    <3> HIDE DEF l
    <3>1. l \in Entry /\ l <= d /\ d <= l
      BY <2>2 DEF l
    <3> QED BY <3>1 DEF Entry
  <2> QED BY <2>1, <2>3 DEF FoundEntry
<1>4. Fill(d, dest)
  BY <1>1, <1>3 DEF ReceiveReply, Update
<1>5. \A e \in Entry : state'[e] # "half_filled"
  <2>1. \A e \in Entry : state[e] = "half_filled" => e = d
    BY <1>1, <1>2, FirstIsOne DEF OnlyFirstHalfFilled
  <2> QED BY <1>4, <2>1 DEF Fill, TypeOK
<1>6. asked' = {}
  BY <1>1 DEF ReceiveReply
<1>7. /\ Cache_Updated' = (pc # "queued")
      /\ pc' = IF pc = "queued" THEN "lookup" ELSE pc
  BY DEF ReceiveReply, Update, OpenEntry
<1>8. CASE pc = "queued"
  BY <1>5, <1>6, <1>7, <1>8 DEF Calm, Answered
<1>9. CASE pc = "wait"
  BY <1>5, <1>6, <1>7, <1>9 DEF Calm, Answered
<1> QED BY <1>1, <1>8, <1>9

\* The invariant of waiting holds initially and every step preserves it.
LEMMA WaitInvCorrect == Spec => []WaitInv
<1>1. Init => WaitInv
  BY DEF Init, WaitInv, SenderKnows, QueuedIsClosed, Calm, Answered
<1>2. CacheInv /\ WaitInv /\ [Next]_vars => WaitInv'
  <2> SUFFICES ASSUME CacheInv, WaitInv, [Next]_vars PROVE WaitInv'
    OBVIOUS
  <2>1. SenderKnows' /\ QueuedIsClosed'
    BY EveryStepKnows, EveryStepCloses DEF WaitInv
  <2>2. Calm'
    <3>1. disturbed => disturbed'
      BY DEF Next, Resolve, SenderStep, Lookup, CheckEntry, CheckRequest, Hit, Expired,
             Unreachable, CountRetry, Claim, Mark, Allocate_Tx_Packet, Send_ARP_Request,
             Wait_Until_Cache_Updated, ReceiveRequest, Learn, Send_ARP_Reply, ReceiveReply,
             Lose, Age, vars
    <3>2. SUFFICES ASSUME ~disturbed, ~disturbed' PROVE Calm'
      BY <3>1 DEF Calm
    <3>3. CASE UNCHANGED <<ip, state, Cache_Updated, pc, dest, asked>>
      <4>1. /\ Answered' <=> Answered
            /\ OnlyFirstHalfFilled' <=> OnlyFirstHalfFilled
        BY <3>3 DEF Answered, OnlyFirstHalfFilled, First, Matching
      <4> QED BY <3>2, <3>3, <4>1 DEF Calm, WaitInv
    <3>4. CASE \E d \in Destinations : Resolve(d)
      BY <3>2, <3>4 DEF Resolve, Calm, Answered, entries, WaitInv
    <3>5. CASE SenderStep
      BY <3>2, <3>5, SenderStepCalm DEF WaitInv
    <3>6. CASE \E src \in Announcers, dst \in Hosts \cup {Own} : ReceiveRequest(src, dst)
      BY <3>2, <3>3, <3>6 DEF ReceiveRequest, Learn, entries, sender
    <3>7. CASE \E src \in Hosts : ReceiveReply(src)
      BY <3>2, <3>7, ReplyCalm DEF WaitInv
    <3>8. CASE Lose
      BY <3>2, <3>8 DEF Lose
    <3>9. CASE (\E e \in Entry : Age(e)) \/ UNCHANGED vars
      BY <3>3, <3>9 DEF Age, vars, entries, sender
    <3>10. CASE Send_ARP_Reply
      BY <3>2, <3>3, <3>10 DEF Send_ARP_Reply, Learn, entries, sender
    <3>11. CASE Allocate_Tx_Packet
      <4>1. UNCHANGED <<ip, state, Cache_Updated, dest, asked>> /\ pc = "request" /\ pc' = "send"
        BY <3>11 DEF Allocate_Tx_Packet, entries, sender
      <4>2. OnlyFirstHalfFilled' <=> OnlyFirstHalfFilled
        BY <4>1 DEF OnlyFirstHalfFilled, First, Matching
      <4> QED BY <3>2, <4>1, <4>2 DEF Calm, WaitInv
    <3> QED BY <3>4, <3>5, <3>6, <3>7, <3>8, <3>9, <3>10, <3>11 DEF Next
  <2> QED BY <2>1, <2>2 DEF WaitInv
<1> QED BY <1>1, <1>2, CacheInvCorrect, PTL DEF Spec

\* No update of the cache is lost between the sender's lookup and its wait: it is never
\* queued beside a filled entry of its destination, with any number of entries and
\* hosts and whatever the receiver task does in between.
THEOREM UpdatesAreNoticed == Spec => []NoUpdateMissed
<1>1. ASSUME CacheInv, WaitInv, pc = "queued", FoundEntry(dest) # 0
      PROVE  state[FoundEntry(dest)] # "filled"
  <2>1. PICK d \in Entry : state[d] = "half_filled" /\ First(d)
    BY <1>1 DEF WaitInv, SenderKnows, QueuedIsClosed
  <2>2. d \in Matching(dest) /\ Matching(dest) \in SUBSET Entry
    BY <2>1 DEF First, Matching
  <2> DEFINE l == Min(Matching(dest))
  <2>3. FoundEntry(dest) = l
    BY <2>2 DEF FoundEntry
  <2>4. l \in Entry /\ l <= d /\ d <= l
    BY <2>1, <2>2, LeastEntry DEF First
  <2> HIDE DEF l
  <2>5. l = d
    BY <2>4 DEF Entry
  <2> QED BY <2>1, <2>3, <2>5
<1>2. CacheInv /\ WaitInv => NoUpdateMissed
  BY <1>1 DEF NoUpdateMissed
<1> QED BY <1>2, CacheInvCorrect, WaitInvCorrect, PTL

\* On an undisturbed subnet the sender waits only for a reply that is on its way, and no
\* entry it looks at is half-filled, so that the assertion on its state cannot fail.
THEOREM CalmSubnetIsCalm == Spec => []CalmSubnet
<1>1. WaitInv => CalmSubnet
  BY DEF WaitInv, QueuedIsClosed, Calm, CalmSubnet
<1> QED BY <1>1, WaitInvCorrect, PTL

=============================================================================
