------------------------------ MODULE ArpCache ------------------------------
(***************************************************************************)
(* The ARP cache of an IPv4 end point of package Networking.Layer3_IPv4,   *)
(* one task that sends IPv4 packets, and the task that receives ARP        *)
(* packets.                                                                *)
(*                                                                         *)
(* A call of the protected object ARP_Cache is one action.  The sender     *)
(* keeps pointers to entries after such a call and reads and writes their  *)
(* fields outside it; the receiver has a higher priority and may run       *)
(* between any two of those accesses, which are therefore actions of their *)
(* own.  Time is whether a stamp is older than the limit it is compared    *)
(* with.  A MAC address is named by the host that has it.                  *)
(*                                                                         *)
(* Both tasks allocate a Tx packet for what they send, and may be held up  *)
(* there for as long as the pool likes: no fairness is stated for those    *)
(* steps.  A failed assertion stops the board.                             *)
(***************************************************************************)
EXTENDS Integers, FiniteSetsExt

CONSTANTS
  Num_Entries,      \* ARP_Cache_Num_Entries
  Max_Retries,      \* ARP_Request_Max_Retries
  Hosts,            \* the remote addresses of the subnet, each with its MAC address
  Own,              \* the address of this end point
  Null,             \* IPv4_Null_Address, and the MAC address of an entry never filled
  Destinations,     \* the hosts this node sends to
  Announcers        \* the source addresses of the ARP requests that arrive

ASSUME Sizes == Num_Entries \in Nat \ {0} /\ Max_Retries \in Nat \ {0}
ASSUME Addresses == /\ Destinations \subseteq Hosts
                    /\ Own \notin Hosts /\ Null \notin Hosts \cup {Own}
                    /\ Announcers \subseteq Hosts \cup {Own, Null}

VARIABLES
  ip, mac, state,   \* the fields of each entry
  old,              \* whether the time stamp that goes with its state is past its limit
  Cache_Updated,    \* the barrier of the entry Wait_Until_Cache_Updated
  pc,               \* the point the sender has reached
  dest,             \* the address it resolves
  found, free,      \* Matching_Entry_Ptr and Free_Entry_Ptr: an index, or 0
  retries,          \* ARP_Request_Retries
  frame,            \* the destination address and the MAC address of the last frame
  answering,        \* what is to be kept of the request the receiver answers, if any
  asked,            \* network: the hosts that have been asked and have not replied
  disturbed         \* history: has a host announced itself, or a message been lost?

entries == <<ip, mac, state, old>>
sender  == <<dest, found, free, retries, frame>>
vars    == <<entries, Cache_Updated, pc, sender, answering, asked, disturbed>>

Entry   == 1 .. Num_Entries
NoFrame == [to |-> Null, mac |-> Null]
States  == {"invalid", "half_filled", "filled"}
Points  == {"idle", "lookup", "check", "hit", "expired", "outstanding", "retry", "claim",
            "mark", "request", "send", "wait", "queued", "assert_failed"}

TypeOK ==
  /\ ip \in [Entry -> Hosts \cup {Own, Null}]
  /\ mac \in [Entry -> Hosts \cup {Own, Null}]
  /\ state \in [Entry -> States]
  /\ old \in [Entry -> BOOLEAN]
  /\ Cache_Updated \in BOOLEAN
  /\ pc \in Points
  /\ dest \in Destinations \cup {Null}
  /\ found \in 0 .. Num_Entries /\ free \in 0 .. Num_Entries
  /\ retries \in 0 .. Max_Retries
  /\ frame \in [to : Destinations \cup {Null}, mac : Hosts \cup {Own, Null}]
  /\ answering \subseteq Announcers \cup {Null}
  /\ asked \subseteq Hosts
  /\ disturbed \in BOOLEAN

Init ==
  /\ ip = [e \in Entry |-> Null] /\ mac = [e \in Entry |-> Null]
  /\ state = [e \in Entry |-> "invalid"]
  /\ old = [e \in Entry |-> FALSE]
  /\ Cache_Updated = FALSE
  /\ pc = "idle"
  /\ dest = Null
  /\ found = 0 /\ free = 0
  /\ retries = 0
  /\ frame = NoFrame
  /\ answering = {}
  /\ asked = {}
  /\ disturbed = FALSE

-----------------------------------------------------------------------------
(* ARP_Cache_Protected_Type *)

Matching(a) == {e \in Entry : state[e] # "invalid" /\ ip[e] = a}
Invalid     == {e \in Entry : state[e] = "invalid"}

FoundEntry(a) == IF Matching(a) = {} THEN 0 ELSE Min(Matching(a))

\* No code writes Last_Lookup_Time_Stamp, so that every entry of a full cache is
\* as good as the first one, which the loop keeps.
LeastRecentlyUsed == Min(Entry)

FreeEntry(a) ==
  IF Matching(a) # {} THEN 0
  ELSE IF Invalid # {} THEN Min(Invalid) ELSE LeastRecentlyUsed

\* What Lookup_or_Allocate leaves of the states: the entry to be overwritten is invalid.
AfterLookup(a) ==
  IF Matching(a) = {} THEN [state EXCEPT ![FreeEntry(a)] = "invalid"] ELSE state

\* Mutant: the MAC address is kept that the entry had.
FillKeepsMac(e, a) ==
  /\ ip' = [ip EXCEPT ![e] = a]
  /\ mac' = [mac EXCEPT ![e] = IF @ = Null THEN a ELSE @]
  /\ state' = [state EXCEPT ![e] = "filled"]
  /\ old' = [old EXCEPT ![e] = FALSE]

Fill(e, a) ==
  /\ ip' = [ip EXCEPT ![e] = a]
  /\ mac' = [mac EXCEPT ![e] = a]
  /\ state' = [state EXCEPT ![e] = "filled"]
  /\ old' = [old EXCEPT ![e] = FALSE]

\* The entry Wait_Until_Cache_Updated is opened; a task queued there is served
\* before the protected action ends.
OpenEntry ==
  /\ Cache_Updated' = (pc # "queued")
  /\ pc' = IF pc = "queued" THEN "lookup" ELSE pc

\* What host a says of itself is stored.
Update(a) ==
  /\ Fill(IF Matching(a) # {} THEN FoundEntry(a) ELSE FreeEntry(a), a)
  /\ OpenEntry

-----------------------------------------------------------------------------
(* Resolve_Destination_IPv4_Address, called by Send_IPv4_Packet *)

Resolve(d) ==
  /\ pc = "idle"
  /\ dest' = d
  /\ frame' = NoFrame
  /\ pc' = "lookup"
  /\ UNCHANGED <<entries, Cache_Updated, found, free, retries, answering, asked, disturbed>>

\* The local variables of the call are gone when it returns.
Return ==
  /\ pc' = "idle"
  /\ dest' = Null /\ found' = 0 /\ free' = 0 /\ retries' = 0

Lookup ==
  /\ pc = "lookup"
  /\ found' = FoundEntry(dest)
  /\ free' = FreeEntry(dest)
  /\ state' = AfterLookup(dest)
  /\ pc' = "check"
  /\ UNCHANGED <<ip, mac, old, Cache_Updated, dest, retries, frame, answering, asked, disturbed>>

\* The state of the entry, and the time stamp of a filled one, decide what is done.
CheckEntry ==
  /\ pc = "check"
  /\ pc' = IF found = 0 THEN "retry"
           ELSE IF state[found] # "filled" THEN "outstanding"
           ELSE IF old[found] THEN "expired" ELSE "hit"
  /\ UNCHANGED <<entries, Cache_Updated, sender, answering, asked, disturbed>>

\* A hit: the frame goes to the MAC address the entry holds by now.
Hit ==
  /\ pc = "hit"
  /\ frame' = [to |-> dest, mac |-> mac[found]]
  /\ Return
  /\ UNCHANGED <<entries, Cache_Updated, answering, asked, disturbed>>

\* Mutant: a request that was not answered in time is waited for all the same.
CheckRequestOnce ==
  /\ pc = "outstanding"
  /\ pc' \in IF state[found] = "filled" THEN {"assert_failed", "retry", "wait"} ELSE {"wait"}
  /\ UNCHANGED <<entries, Cache_Updated, sender, answering, asked, disturbed>>

\* An entry that was not filled: the assertion reads the state once more, unless the
\* compiler keeps what it has read, and the time stamp of the request decides.  If the
\* receiver has filled the entry since, the board stops there or the request is as old
\* as it may be.
CheckRequest ==
  /\ pc = "outstanding"
  /\ pc' \in IF state[found] = "filled" THEN {"assert_failed", "retry", "wait"}
             ELSE IF old[found] THEN {"retry"} ELSE {"wait"}
  /\ UNCHANGED <<entries, Cache_Updated, sender, answering, asked, disturbed>>

Expired ==
  /\ pc = "expired"
  /\ state' = [state EXCEPT ![found] = "invalid"]
  /\ pc' = "retry"
  /\ UNCHANGED <<ip, mac, old, Cache_Updated, sender, answering, asked, disturbed>>

\* After too many requests the packet is dropped: "Unreachable IP address".
Unreachable ==
  /\ pc = "retry" /\ retries = Max_Retries
  /\ Return
  /\ UNCHANGED <<entries, Cache_Updated, frame, answering, asked, disturbed>>

CountRetry ==
  /\ pc = "retry" /\ retries < Max_Retries
  /\ retries' = retries + 1
  /\ pc' = IF found = 0 THEN "claim" ELSE "mark"
  /\ UNCHANGED <<entries, Cache_Updated, dest, found, free, frame, answering, asked, disturbed>>

\* The free entry gets the address, whatever it has become since the lookup.
Claim ==
  /\ pc = "claim"
  /\ ip' = [ip EXCEPT ![free] = dest]
  /\ pc' = "mark"
  /\ UNCHANGED <<mac, state, old, Cache_Updated, sender, answering, asked, disturbed>>

\* Mutant: an entry that has expired is not requested again.
MarkWithoutRequest ==
  LET e == IF found = 0 THEN free ELSE found IN
  /\ pc = "mark"
  /\ state' = [state EXCEPT ![e] = "half_filled"]
  /\ old' = [old EXCEPT ![e] = FALSE]
  /\ pc' = IF found = 0 THEN "request" ELSE "wait"
  /\ UNCHANGED <<ip, mac, Cache_Updated, sender, answering, asked, disturbed>>

\* Its time stamp and its state, which no task reads between the two.
Mark ==
  LET e == IF found = 0 THEN free ELSE found IN
  /\ pc = "mark"
  /\ state' = [state EXCEPT ![e] = "half_filled"]
  /\ old' = [old EXCEPT ![e] = FALSE]
  /\ pc' = "request"
  /\ UNCHANGED <<ip, mac, Cache_Updated, sender, answering, asked, disturbed>>

\* Send_ARP_Request takes a packet from the Tx pool first, which may never have one:
\* the task that resolves an address holds a Tx packet already.
Allocate_Tx_Packet ==
  /\ pc = "request"
  /\ pc' = "send"
  /\ UNCHANGED <<entries, Cache_Updated, sender, answering, asked, disturbed>>

Send_ARP_Request ==
  /\ pc = "send"
  /\ asked' = asked \cup {dest}
  /\ pc' = "wait"
  /\ UNCHANGED <<entries, Cache_Updated, sender, answering, disturbed>>

\* Mutant: the sender forgets an update that came before it waits.
WaitForNextUpdate ==
  /\ pc = "wait"
  /\ pc' = "queued"
  /\ Cache_Updated' = FALSE
  /\ UNCHANGED <<entries, sender, answering, asked, disturbed>>

\* The entry Wait_Until_Cache_Updated, which does nothing with its timeout.
Wait_Until_Cache_Updated ==
  /\ pc = "wait"
  /\ pc' = IF Cache_Updated THEN "lookup" ELSE "queued"
  /\ Cache_Updated' = FALSE
  /\ UNCHANGED <<entries, sender, answering, asked, disturbed>>

-----------------------------------------------------------------------------
(* The receiver task: Process_Incoming_ARP_Packet *)

Receiving == answering = {} /\ pc # "assert_failed"

\* What is kept of a request is its source, and nothing (Null) of a host that asks for
\* our address because it has taken it; a probe has the source Null.
Kept(src, dst) == IF src = Own /\ dst = Own THEN Null ELSE src

Learn(a) ==
  IF a = Null THEN UNCHANGED <<entries, Cache_Updated, pc, disturbed>>
  ELSE Update(a) /\ disturbed' = TRUE

\* A request that a host broadcasts.  One for our address is answered before anything
\* is kept of it.
ReceiveRequest(src, dst) ==
  /\ Receiving
  /\ IF dst = Own
     THEN answering' = {Kept(src, dst)} /\ UNCHANGED <<entries, Cache_Updated, pc, disturbed>>
     ELSE Learn(Kept(src, dst)) /\ UNCHANGED answering
  /\ UNCHANGED <<sender, asked>>

\* The receiver has been given a packet for its answer and sends it.
Send_ARP_Reply ==
  /\ pc # "assert_failed"
  /\ \E a \in answering : Learn(a)
  /\ answering' = {}
  /\ UNCHANGED <<sender, asked>>

\* The reply of a host that has been asked.
ReceiveReply(src) ==
  /\ Receiving
  /\ src \in asked
  /\ asked' = asked \ {src}
  /\ Update(src)
  /\ UNCHANGED <<sender, answering, disturbed>>

-----------------------------------------------------------------------------
(* The network and the clock *)

\* A request or its reply is lost.
Lose ==
  /\ \E a \in asked : asked' = asked \ {a}
  /\ disturbed' = TRUE
  /\ UNCHANGED <<entries, Cache_Updated, pc, sender, answering>>

\* The lifetime of a filled entry, or the wait for a reply, is over.
Age(e) ==
  /\ state[e] # "invalid" /\ ~old[e]
  /\ old' = [old EXCEPT ![e] = TRUE]
  /\ UNCHANGED <<ip, mac, state, Cache_Updated, pc, sender, answering, asked, disturbed>>

-----------------------------------------------------------------------------
SenderStep == \/ Lookup \/ CheckEntry \/ CheckRequest \/ Hit \/ Expired \/ Unreachable
              \/ CountRetry \/ Claim \/ Mark \/ Send_ARP_Request \/ Wait_Until_Cache_Updated

Next ==
  \/ \E d \in Destinations : Resolve(d)
  \/ SenderStep
  \/ Allocate_Tx_Packet
  \/ \E src \in Announcers, dst \in Hosts \cup {Own} : ReceiveRequest(src, dst)
  \/ Send_ARP_Reply
  \/ \E src \in Hosts : ReceiveReply(src)
  \/ Lose
  \/ \E e \in Entry : Age(e)

Spec == Init /\ [][Next]_vars

\* Both tasks are scheduled in the end, a host replies to a request that reaches it, and
\* time passes.  The receiver takes packets in the order of their arrival, so that a
\* reply is not overtaken for ever by requests it answers (strong fairness).  Nothing
\* makes the pool give a task a packet, and nothing is announced or lost that need not be.
Fairness ==
  /\ WF_vars(SenderStep)
  /\ \A h \in Hosts : SF_vars(ReceiveReply(h))
  /\ \A e \in Entry : WF_vars(Age(e))

FairSpec == Spec /\ Fairness

-----------------------------------------------------------------------------
(* Properties *)

\* A filled entry holds the MAC address of the host it names, except for the moment
\* in which the sender has written an address into an entry the receiver took first;
\* it is not used for a hit by then.
FilledIsTrue ==
  \A e \in Entry : state[e] = "filled" /\ mac[e] # ip[e] =>
    pc = "mark" /\ found = 0 /\ e = free

\* No update is lost: the sender is not queued while a lookup of its destination would
\* find an entry that is filled.
NoUpdateMissed ==
  pc = "queued" /\ FoundEntry(dest) # 0 => state[FoundEntry(dest)] # "filled"

\* On a subnet that nobody disturbs, the sender waits only for a reply that is on its
\* way, since nothing else would end the wait, and the receiver fills no entry under its
\* eyes: the assertion that its state is Entry_Half_Filled cannot fail.
CalmSubnet ==
  ~disturbed => /\ pc = "queued" => dest \in asked
                /\ pc # "assert_failed"

\* The receiver stores what another host says of itself, unasked.
Announcement ==
  (\E src \in Announcers : Update(src)) /\ disturbed' /\ UNCHANGED <<sender, asked>>

\* An address is resolved, or given up as unreachable after Max_Retries requests, or the
\* assertion stops the board, provided that the Tx pool gives both tasks the packets
\* they ask for, and that either nothing is lost and nobody disturbs the subnet, or
\* other hosts announce themselves again and again: the wait has no timeout of its own,
\* and a request that was lost is sent again only when something else ends the wait.
Resolved ==
  /\ []<>(pc # "request") /\ []<>(answering = {})
  /\ []~disturbed \/ []<><<Announcement>>_vars
  => (pc = "lookup" ~> pc \in {"idle", "assert_failed"})

\* "Get destination MAC address": a frame goes to the MAC address of its destination.
FrameToDestination == frame.mac = frame.to
=============================================================================
