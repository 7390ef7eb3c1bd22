----------------------------- MODULE TlvChannel -----------------------------
(***************************************************************************)
(* What cujoagent_emit_event_tlv gives its callers, without threads,       *)
(* eventfds or locks.  One TLV is offered at a time.  While the channel is *)
(* clean the offered TLV, and nothing else, reaches the agent, and success *)
(* is reported only if it did.  An emit that fails may leave something of  *)
(* its TLV under way: the channel is then not clean until that has come    *)
(* out, and whatever it delivers or confirms meanwhile is not promised to  *)
(* be what was offered.  A TLV offered to a clean channel is exact: it     *)
(* reaches the agent at most once, in order, however its emit ends.        *)
(***************************************************************************)
EXTENDS Naturals, Sequences

VARIABLES
  offered,   \* the TLV being emitted, 0 when there is none
  count,     \* TLVs offered so far
  wire,      \* datagrams the agent received: the TLV, or 0 for no TLV at all
  log,       \* TLVs whose emit reported success
  clean,     \* nothing of an earlier TLV was under way when this was offered,
             \* or, when none is offered, is under way
  exact      \* TLVs that were offered to a clean channel

vars == <<offered, count, wire, log, clean, exact>>

Init ==
  /\ offered = 0 /\ count = 0 /\ wire = <<>> /\ log = <<>>
  /\ clean = TRUE /\ exact = {}

Received(n) == \E i \in 1..Len(wire) : wire[i] = n

(* An emit begins with a new TLV. *)
Offer ==
  /\ offered = 0
  /\ count' = count + 1
  /\ offered' = count + 1
  /\ exact' = IF clean THEN exact \cup {count + 1} ELSE exact
  /\ UNCHANGED <<wire, log, clean>>

(* The agent receives the offered TLV, or something late.  No exact TLV    *)
(* comes twice or after a later one.                                       *)
Deliver(n) ==
  /\ clean => offered # 0 /\ n = offered
  /\ n \in exact => \A i \in 1..Len(wire) : wire[i] \in exact => wire[i] < n
  /\ wire' = Append(wire, n)
  /\ UNCHANGED <<offered, count, log, clean, exact>>

(* An emit reports success: for a datagram that was not yet reported, and  *)
(* if the TLV is exact, for that TLV, nothing of which is left.            *)
Confirm ==
  /\ offered # 0
  /\ Len(log) < Len(wire)
  /\ clean => Received(offered) /\ clean'
  /\ log' = Append(log, offered)
  /\ offered' = 0
  /\ clean' \in BOOLEAN
  /\ UNCHANGED <<count, wire, exact>>

(* An emit reports failure, and may leave something under way. *)
Drop ==
  /\ offered # 0
  /\ offered' = 0
  /\ clean' \in BOOLEAN
  /\ UNCHANGED <<count, wire, log, exact>>

(* The last that was under way has come out, or was lost. *)
Settle ==
  /\ offered = 0 /\ ~clean
  /\ clean' = TRUE
  /\ UNCHANGED <<offered, count, wire, log, exact>>

Next ==
  \/ Offer \/ Confirm \/ Drop \/ Settle
  \/ \E n \in 0..count : Deliver(n)

Spec == Init /\ [][Next]_vars

(* An emit has reported failure. *)
Failed == count > Len(log) + (IF offered = 0 THEN 0 ELSE 1)

(* What a caller may rely on.                                              *)
Contract ==
  \* exact TLVs arrive once and in order, whether or not they were confirmed
  /\ \A i, j \in 1..Len(wire) :
       i < j /\ wire[i] \in exact /\ wire[j] \in exact => wire[i] < wire[j]
  \* an exact TLV whose emit reported success was received
  /\ \A i \in 1..Len(log) : log[i] \in exact => Received(log[i])
  \* no datagram is reported twice
  /\ Len(log) <= Len(wire)
  \* until an emit reports failure every TLV is exact
  /\ Failed \/ exact = 1..count
=============================================================================
