-------------------------- MODULE MCIpv4RangeProofs --------------------------
(***************************************************************************)
(* What holds of the pool in the course of its life, for words of every    *)
(* width and clusters of every size: the network becomes the pool, the     *)
(* pool is divided, shares are divided again, addresses are taken and      *)
(* given back. The typing of the states is inductive by itself; from it    *)
(* the facts of Ipv4RangeProofs about the operators apply in every state.  *)
(***************************************************************************)
EXTENDS MCIpv4Range, Ipv4RangeProofs

LEMMA Words == Word \in Nat /\ Word > 0
<1>1. 0 \in 0 .. AddressBits
  BY AddressBitsAssumption
<1> QED BY <1>1, NetworkSizes

LEMMA InitTypeOK == Init => TypeOK
BY Words, AddressBitsAssumption, MaxPartsAssumption DEF Init, TypeOK, Ranges

\* Every operation keeps the pool a range of words with the cursor inside of it.
LEMMA TypeInductive == TypeOK /\ [Next]_vars => TypeOK'
<1> SUFFICES ASSUME TypeOK, [Next]_vars PROVE TypeOK'
  OBVIOUS
<1> USE DEF TypeOK
<1>0. /\ Word \in Nat /\ Word > 0
      /\ range.start \in Nat /\ range.end \in Nat /\ range.start <= range.end /\ range.end < Word
  BY Words DEF Ranges
<1>1. ASSUME Configure PROVE TypeOK'
  <2>1. PICK i \in 0 .. Word - 1, p \in 0 .. AddressBits, checked \in BOOLEAN :
          /\ ip' = i /\ prefix' = p
          /\ range' \in FromCidr(i, p, checked)
          /\ parts' \in 1 .. MaxParts
          /\ cursor' = range'.start
          /\ taken' = {}
    BY <1>1 DEF Configure
  <2>2. range' \in Ranges /\ range'.end < Word
    BY <2>1, CidrType
  <2>3. cursor' \in range'.start .. range'.end
    BY <2>1, <2>2 DEF Ranges
  <2> QED BY <2>1, <2>2, <2>3
<1>2. ASSUME TakeShare PROVE TypeOK'
  <2>1. PICK i \in 1 .. parts :
          /\ range' = Divide(range, parts)[i]
          /\ cursor' = range'.start
          /\ UNCHANGED <<ip, prefix, parts, taken>>
    BY <1>2 DEF TakeShare
  <2>2. parts \in Nat /\ parts > 0
    BY MaxPartsAssumption
  <2>3. range' \in Ranges /\ range'.end <= range.end
    BY <2>1, <2>2, DivideWithinPool
  <2>4. range'.end < Word /\ cursor' \in range'.start .. range'.end
    BY <1>0, <2>1, <2>3 DEF Ranges
  <2> QED BY <2>1, <2>3, <2>4
<1>3. ASSUME TakeAddress PROVE TypeOK'
  <2>1. PICK a \in FirstFree(range, cursor, taken) :
          /\ taken' = taken \cup {a}
          /\ cursor' = a + 1
          /\ UNCHANGED <<ip, prefix, range, parts>>
    BY <1>3 DEF TakeAddress
  <2>2. a \in Addresses(range)
    BY <2>1, ScanStaysInRange
  <2>3. a \in 0 .. Word - 1 /\ a + 1 \in range.start .. range.end
    BY <1>0, <2>2 DEF Addresses
  <2> QED BY <2>1, <2>3
<1>4. ASSUME GiveBack PROVE TypeOK'
  BY <1>4 DEF GiveBack
<1>5. ASSUME UNCHANGED vars PROVE TypeOK'
  BY <1>5 DEF vars
<1> QED BY <1>1, <1>2, <1>3, <1>4, <1>5 DEF Next

\* The pool is always a range that Ipv4Range::new accepts, of words, and one past
\* the address handed out last never leaves it, so that every scan starts in it.
THEOREM PoolTypeCorrect == Spec => []TypeOK
<1>1. Init => TypeOK
  BY InitTypeOK
<1>2. TypeOK /\ [Next]_vars => TypeOK'
  BY TypeInductive
<1> QED BY <1>1, <1>2, PTL DEF Spec

\* However often the pool has been divided, dividing it among the nodes is a
\* partition (dhcp.rs:107, divide).
THEOREM DivideAlwaysPartitions == Spec => []DivideIsPartition
<1>1. TypeOK => DivideIsPartition
  <2> SUFFICES ASSUME TypeOK PROVE DivideIsPartition
    OBVIOUS
  <2>1. range \in Ranges /\ parts \in Nat /\ parts > 0
    BY MaxPartsAssumption DEF TypeOK
  <2>2. \A i, j \in 1 .. parts : i # j =>
          Addresses(Divide(range, parts)[i]) \cap Addresses(Divide(range, parts)[j]) = {}
    BY <2>1, DivideDisjoint
  <2>3. UNION {Addresses(Divide(range, parts)[i]) : i \in 1 .. parts} = Addresses(range)
    BY <2>1, DivideCovers
  <2> QED BY <2>2, <2>3 DEF DivideIsPartition
<1> QED BY <1>1, PoolTypeCorrect, PTL

\* From every cursor in the pool, the scan finds an address exactly when one is
\* free, whatever addresses are taken (dhcp.rs:92, iter_starting_at).
THEOREM ScanAlwaysFinds == Spec => []ScanFindsFreeAddress
<1>1. TypeOK => ScanFindsFreeAddress
  <2> SUFFICES ASSUME TypeOK PROVE ScanFindsFreeAddress
    OBVIOUS
  <2>1. range \in Ranges
    BY DEF TypeOK
  <2> QED BY <2>1, ScanFindsFree DEF ScanFindsFreeAddress
<1> QED BY <1>1, PoolTypeCorrect, PTL

\* The pool of every network that a configuration can name is all of its addresses
\* but the last one; only a build with overflow checks refuses the topmost network
\* (dhcp.rs:100, from_cidr).
THEOREM NetworksBecomePools == Spec => []CidrPool
<1>1. TypeOK => CidrPool
  BY PoolOfNetwork DEF TypeOK, CidrPool
<1> QED BY <1>1, PoolTypeCorrect, PTL
=============================================================================
