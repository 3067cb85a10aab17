------------------------ MODULE ConnectionPoolProofs ------------------------
(***************************************************************************)
(* The safety properties of ConnectionPool for every number of clients,    *)
(* every pool size and every number of dials.  The invariant has two       *)
(* halves that few actions disturb together: where the slot numbers are    *)
(* (TokenInv) and what the slots hold (NoLeak, ExclusiveConn, SlotInv).    *)
(***************************************************************************)
EXTENDS ConnectionPool, SequenceTheorems, TLAPS

\* newConnectionPool: every slot number is in the channel and no slot has a connection.
LEMMA InitInv == Init => PoolInv
<1> SUFFICES ASSUME Init PROVE PoolInv
  OBVIOUS
<1> USE PoolAssumption DEF Init, Slots, NoConn
<1>1. available \in Seq(Slots) /\ Len(available) = PoolSize
  <2>1. available \in [1..PoolSize -> Slots]
    OBVIOUS
  <2> QED
    BY <2>1
<1>2. TypeOK
  <2>1. connections \in [Slots -> 0..dialed] /\ dialed \in Nat /\ open \subseteq 1..dialed
    OBVIOUS
  <2>2. sweep \in 0..PoolSize
    OBVIOUS
  <2>3. /\ step \in [Client -> {"idle", "wait", "check", "wrap", "lock", "held"}]
        /\ idx \in [Client -> Nat]
        /\ conn \in [Client -> 0..dialed]
    OBVIOUS
  <2> QED
    BY <1>1, <2>1, <2>2, <2>3 DEF TypeOK
<1>3. TokenInv
  <2>1. Holders = {}
    BY DEF Holders
  <2>2. \A s \in Slots : s + 1 \in 1..Len(available) /\ available[s + 1] = s
    BY <1>1
  <2>3. \A i, j \in 1..Len(available) : available[i] = available[j] => i = j
    BY <1>1
  <2> QED
    BY <2>1, <2>2, <2>3 DEF TokenInv
<1>4. NoLeak /\ ExclusiveConn /\ SlotInv
  BY DEF NoLeak, ExclusiveConn, SlotInv
<1> QED
  BY <1>2, <1>3, <1>4 DEF PoolInv

-----------------------------------------------------------------------------
(* Where the slot numbers are.                                             *)

\* A step that moves no number in or out of the channel and changes no holder.
LEMMA TokensKept ==
  TokenInv /\ UNCHANGED <<available, idx>> /\ Holders' = Holders => TokenInv'
  BY DEF TokenInv, Slots

\* A client that holds none takes the first number of the channel.
LEMMA TokenTaken ==
  ASSUME TypeOK, TokenInv, NEW c \in Client, c \notin Holders, available # <<>>,
         available' = Tail(available), idx' = [idx EXCEPT ![c] = Head(available)],
         Holders' = Holders \cup {c}
  PROVE  TokenInv'
<1>1. /\ Len(available) \in Nat \ {0}
      /\ Len(available') = Len(available) - 1
      /\ \A i \in 1..Len(available') : available'[i] = available[i + 1]
      /\ Head(available) = available[1]
  BY HeadTailProperties, EmptySeq, LenProperties DEF TypeOK
<1>2. available[1] \in Slots
  BY <1>1, ElementOfSeq DEF TypeOK
<1>3. idx'[c] = available[1] /\ \A d \in Client : d # c => idx'[d] = idx[d]
  BY <1>1 DEF TypeOK
<1>4. \A d \in Holders : d \in Client /\ d # c
  BY DEF Holders
<1>5. \A d \in Holders' : idx'[d] \in Slots
  BY <1>2, <1>3, <1>4 DEF TokenInv
<1>6. \A i, j \in 1..Len(available') : available'[i] = available'[j] => i = j
  <2> SUFFICES ASSUME NEW i \in 1..Len(available'), NEW j \in 1..Len(available'),
                      available'[i] = available'[j]
               PROVE  i = j
    OBVIOUS
  <2>1. i + 1 \in 1..Len(available) /\ j + 1 \in 1..Len(available)
    BY <1>1
  <2>2. i + 1 = j + 1
    BY <1>1, <2>1 DEF TokenInv
  <2> QED
    BY <2>2
<1>7. \A d \in Holders', i \in 1..Len(available') : available'[i] # idx'[d]
  <2> SUFFICES ASSUME NEW d \in Holders', NEW i \in 1..Len(available')
               PROVE  available'[i] # idx'[d]
    OBVIOUS
  <2>1. i + 1 \in 1..Len(available) /\ 1 \in 1..Len(available) /\ i + 1 # 1
    BY <1>1
  <2>2. available'[i] = available[i + 1]
    BY <1>1
  <2> QED
    BY <1>3, <1>4, <2>1, <2>2 DEF TokenInv
<1>8. \A d, e \in Holders' : idx'[d] = idx'[e] => d = e
  BY <1>1, <1>3, <1>4 DEF TokenInv
<1>9. \A s \in Slots : \/ \E i \in 1..Len(available') : available'[i] = s
                       \/ \E d \in Holders' : idx'[d] = s
  <2> SUFFICES ASSUME NEW s \in Slots, ~ \E d \in Holders' : idx'[d] = s
               PROVE  \E i \in 1..Len(available') : available'[i] = s
    OBVIOUS
  <2>1. ~ \E d \in Holders : idx[d] = s
    BY <1>3, <1>4
  <2>2. PICK i \in 1..Len(available) : available[i] = s
    BY <2>1 DEF TokenInv
  <2>3. i # 1
    BY <1>3, <2>2
  <2>4. i - 1 \in 1..Len(available') /\ available'[i - 1] = available[(i - 1) + 1]
    BY <1>1, <2>3
  <2> QED
    BY <2>2, <2>4
<1> QED
  BY <1>5, <1>6, <1>7, <1>8, <1>9 DEF TokenInv, Slots

\* A holder gives its number back.
LEMMA TokenReturned ==
  ASSUME TypeOK, TokenInv, NEW c \in Holders,
         available' = Append(available, idx[c]), UNCHANGED idx,
         Holders' = Holders \ {c}
  PROVE  TokenInv'
<1>1. idx[c] \in Slots
  BY DEF TokenInv
<1>2. /\ Len(available) \in Nat
      /\ Len(available') = Len(available) + 1
      /\ \A i \in 1..Len(available) : available'[i] = available[i]
      /\ available'[Len(available) + 1] = idx[c]
  BY <1>1, AppendProperties, LenProperties DEF TypeOK
<1>3. \A i \in 1..Len(available') : i \in 1..Len(available) \/ i = Len(available) + 1
  BY <1>2
<1>4. \A i, j \in 1..Len(available') : available'[i] = available'[j] => i = j
  BY <1>2, <1>3 DEF TokenInv
<1>5. \A d \in Holders', i \in 1..Len(available') : available'[i] # idx'[d]
  BY <1>2, <1>3 DEF TokenInv
<1>6. \A s \in Slots : \/ \E i \in 1..Len(available') : available'[i] = s
                       \/ \E d \in Holders' : idx'[d] = s
  <2> SUFFICES ASSUME NEW s \in Slots, ~ \E d \in Holders' : idx'[d] = s
               PROVE  \E i \in 1..Len(available') : available'[i] = s
    OBVIOUS
  <2>1. CASE idx[c] = s
    BY <1>2, <2>1
  <2>2. CASE idx[c] # s
    <3>1. PICK i \in 1..Len(available) : available[i] = s
      BY <2>2 DEF TokenInv
    <3>2. i \in 1..Len(available') /\ available'[i] = s
      BY <1>2, <3>1
    <3> QED
      BY <3>2
  <2> QED
    BY <2>1, <2>2
<1> QED
  BY <1>4, <1>5, <1>6 DEF TokenInv, Slots

-----------------------------------------------------------------------------
(* Every action.                                                           *)

\* A client's steps up to the slot's connection, none of which writes a slot.
LEMMA FetchInv ==
  ASSUME PoolInv, NEW c \in Client,
         Fetch(c) \/ FetchTake(c) \/ FetchTimeout(c) \/ FetchCheck(c) \/ FetchWrap(c)
  PROVE  PoolInv'
<1> USE DEF PoolInv
<1>1. CASE Fetch(c) \/ FetchTimeout(c)
  <2>1. Holders' = Holders
    BY <1>1 DEF Fetch, FetchTimeout, Holders, TypeOK
  <2>2. TypeOK'
    BY <1>1 DEF Fetch, FetchTimeout, TypeOK, Slots
  <2>3. TokenInv'
    BY <1>1, <2>1, TokensKept DEF Fetch, FetchTimeout
  <2>4. NoLeak' /\ ExclusiveConn'
    BY <1>1 DEF Fetch, FetchTimeout, NoLeak, ExclusiveConn, Slots, NoConn
  <2>5. SlotInv'
    <3>1. \A d \in Client : step'[d] = "held" <=> step[d] = "held"
      BY <1>1 DEF Fetch, FetchTimeout, TypeOK
    <3> QED
      BY <1>1, <3>1 DEF Fetch, FetchTimeout, SlotInv, Slots, NoConn
  <2> QED
    BY <2>2, <2>3, <2>4, <2>5
<1>2. CASE FetchTake(c)
  <2>1. Holders' = Holders \cup {c} /\ c \notin Holders
    BY <1>2 DEF FetchTake, Holders, TypeOK
  <2>2. TypeOK'
    <3>1. Head(available) \in Slots /\ available' \in Seq(Slots)
      BY <1>2, HeadTailProperties DEF FetchTake, TypeOK
    <3>2. Head(available) \in Nat
      BY <3>1, PoolAssumption DEF Slots
    <3> QED
      BY <1>2, <3>1, <3>2 DEF FetchTake, TypeOK, Slots
  <2>3. TokenInv'
    BY <1>2, <2>1, TokenTaken DEF FetchTake
  <2>4. NoLeak' /\ ExclusiveConn' /\ SlotInv'
    BY <1>2 DEF FetchTake, TypeOK, NoLeak, ExclusiveConn, SlotInv, Slots, NoConn
  <2> QED
    BY <2>2, <2>3, <2>4
<1>3. CASE FetchCheck(c)
  <2>1. Holders' = Holders
    BY <1>3 DEF FetchCheck, Holders, TypeOK
  <2>2. TypeOK'
    BY <1>3 DEF FetchCheck, TypeOK, Slots
  <2>3. TokenInv'
    BY <1>3, <2>1, TokensKept DEF FetchCheck
  <2>4. NoLeak' /\ ExclusiveConn' /\ SlotInv'
    BY <1>3 DEF FetchCheck, TypeOK, NoLeak, ExclusiveConn, SlotInv, Slots, NoConn
  <2> QED
    BY <2>2, <2>3, <2>4
<1>4. CASE FetchWrap(c)
  <2>1. Holders' = Holders
    BY <1>4 DEF FetchWrap, Holders, TypeOK
  <2>2. c \in Holders /\ idx[c] \in Slots
    BY <1>4 DEF FetchWrap, Holders, TokenInv
  <2>3. TypeOK'
    BY <1>4, <2>2 DEF FetchWrap, TypeOK, Slots
  <2>4. TokenInv'
    BY <1>4, <2>1, TokensKept DEF FetchWrap
  <2>5. NoLeak'
    BY <1>4 DEF FetchWrap, NoLeak, Slots
  <2>6. \A d \in Client : conn[d] # NoConn => d \in Holders
    BY DEF SlotInv, Holders
  <2>7. ExclusiveConn'
    <3> SUFFICES ASSUME NEW d \in Client, NEW e \in Client,
                        conn'[d] = conn'[e], conn'[d] # NoConn, d # e
                 PROVE  FALSE
      BY DEF ExclusiveConn, NoConn
    <3>1. \A a \in Client : conn'[a] = IF a = c THEN connections[idx[c]] ELSE conn[a]
      BY <1>4 DEF FetchWrap, TypeOK
    <3>2. CASE d # c /\ e # c
      BY <3>1, <3>2 DEF ExclusiveConn
    <3>3. CASE d = c
      BY <2>2, <2>6, <3>1, <3>3 DEF SlotInv, TokenInv
    <3>4. CASE e = c
      BY <2>2, <2>6, <3>1, <3>4 DEF SlotInv, TokenInv
    <3> QED
      BY <3>2, <3>3, <3>4
  <2>8. SlotInv'
    BY <1>4, <2>2 DEF FetchWrap, TypeOK, SlotInv, Slots, NoConn
  <2> QED
    BY <2>3, <2>4, <2>5, <2>7, <2>8
<1> QED
  BY <1>1, <1>2, <1>3, <1>4

\* The slow path under cp.mu: at most one client dials into a slot, and only while close()
\* is not walking over them.
LEMMA LockedInv ==
  ASSUME PoolInv, NEW c \in Client, FetchLocked(c)
  PROVE  PoolInv'
<1> USE DEF PoolInv
<1>1. Holders' = Holders
  BY DEF FetchLocked, Holders, TypeOK
<1>2. c \in Holders /\ idx[c] \in Slots
  BY DEF FetchLocked, Holders, TokenInv
<1>3. TokenInv'
  BY <1>1, TokensKept DEF FetchLocked
<1>4. \A d \in Client : conn[d] # NoConn => d \in Holders
  BY DEF SlotInv, Holders
<1>5. \A a \in Client : conn'[a] = IF a = c THEN connections'[idx[c]] ELSE conn[a]
  BY DEF FetchLocked, TypeOK
<1>6. CASE connections[idx[c]] = NoConn
  <2>1. /\ dialed' = dialed + 1
        /\ open' = open \cup {dialed + 1}
        /\ connections' = [connections EXCEPT ![idx[c]] = dialed + 1]
        /\ closer = "idle"
        /\ UNCHANGED <<available, closer, sweep, idx, crashed>>
    BY <1>6 DEF FetchLocked
  <2>2. \A s \in Slots : connections'[s] = IF s = idx[c] THEN dialed + 1 ELSE connections[s]
    BY <2>1 DEF TypeOK
  <2>3. connections'[idx[c]] = dialed + 1 /\ dialed + 1 # NoConn
    BY <1>2, <2>2 DEF TypeOK, NoConn
  <2>4. \A d \in Client : conn[d] # dialed + 1
    BY DEF TypeOK
  <2>5. \A s \in Slots : connections[s] # dialed + 1
    BY DEF TypeOK
  <2>6. TypeOK'
    <3>1. connections' \in [Slots -> 0..dialed'] /\ conn' \in [Client -> 0..dialed']
      BY <1>2, <1>5, <2>1, <2>3 DEF FetchLocked, TypeOK
    <3>2. dialed' \in Nat /\ open' \subseteq 1..dialed'
      BY <2>1 DEF TypeOK
    <3>3. step' \in [Client -> {"idle", "wait", "check", "wrap", "lock", "held"}]
      BY DEF FetchLocked, TypeOK
    <3> QED
      BY <2>1, <3>1, <3>2, <3>3 DEF TypeOK, Slots
  <2>7. NoLeak'
    <3> SUFFICES ASSUME NEW k \in open' PROVE \E s \in Slots : connections'[s] = k
      BY DEF NoLeak, Slots
    <3>1. CASE k = dialed + 1
      BY <1>2, <2>3, <3>1
    <3>2. CASE k \in open
      <4>1. PICK s \in Slots : connections[s] = k
        BY <3>2 DEF NoLeak
      <4>2. k # NoConn
        BY <3>2 DEF TypeOK, NoConn
      <4> QED
        BY <1>6, <2>2, <4>1, <4>2
    <3> QED
      BY <2>1, <3>1, <3>2
  <2>8. ExclusiveConn'
    BY <1>5, <2>3, <2>4 DEF ExclusiveConn, NoConn
  <2>9. SlotInv'
    <3>1. \A s, t \in Slots : connections'[s] = connections'[t] /\ connections'[s] # NoConn
                              => s = t
      BY <2>2, <2>5 DEF SlotInv
    <3>2. \A s \in Slots : connections'[s] # NoConn => connections'[s] \in open'
      BY <2>1, <2>2 DEF SlotInv
    <3>3. \A d \in Client : step'[d] # "held" => conn'[d] = NoConn
      BY <1>5 DEF FetchLocked, SlotInv, TypeOK
    <3>4. \A d \in Client, s \in Slots :
            conn'[d] # NoConn /\ connections'[s] = conn'[d] => s = idx'[d]
      <4> SUFFICES ASSUME NEW d \in Client, NEW s \in Slots,
                          conn'[d] # NoConn, connections'[s] = conn'[d]
                   PROVE  s = idx'[d]
        OBVIOUS
      <4>1. CASE d = c
        BY <1>5, <2>1, <2>2, <2>3, <2>5, <4>1
      <4>2. CASE d # c
        BY <1>5, <2>1, <2>2, <2>4, <4>2 DEF SlotInv
      <4> QED
        BY <4>1, <4>2
    <3> QED
      BY <2>1, <3>1, <3>2, <3>3, <3>4 DEF SlotInv, Slots, NoConn
  <2> QED
    BY <1>3, <2>6, <2>7, <2>8, <2>9
<1>7. CASE connections[idx[c]] # NoConn
  <2>1. /\ UNCHANGED <<connections, available, dialed, open, closer, sweep, idx, crashed>>
        /\ conn' = [conn EXCEPT ![c] = connections[idx[c]]]
        /\ step' = [step EXCEPT ![c] = "held"]
    BY <1>7 DEF FetchLocked
  <2>2. TypeOK'
    BY <1>2, <2>1 DEF TypeOK, Slots
  <2>3. NoLeak'
    BY <2>1 DEF NoLeak, Slots
  <2>4. ExclusiveConn'
    <3> SUFFICES ASSUME NEW d \in Client, NEW e \in Client,
                        conn'[d] = conn'[e], conn'[d] # NoConn, d # e
                 PROVE  FALSE
      BY DEF ExclusiveConn, NoConn
    <3>1. CASE d # c /\ e # c
      BY <1>5, <3>1 DEF ExclusiveConn
    <3>2. CASE d = c
      BY <1>2, <1>4, <1>5, <2>1, <3>2 DEF SlotInv, TokenInv
    <3>3. CASE e = c
      BY <1>2, <1>4, <1>5, <2>1, <3>3 DEF SlotInv, TokenInv
    <3> QED
      BY <3>1, <3>2, <3>3
  <2>5. SlotInv'
    BY <1>2, <2>1 DEF TypeOK, SlotInv, Slots, NoConn
  <2> QED
    BY <1>3, <2>2, <2>3, <2>4, <2>5
<1> QED
  BY <1>6, <1>7

\* The number of a client whose RPC is over, or whose dialling failed, goes back.
LEMMA NumberGoesBack ==
  ASSUME PoolInv, NEW c \in Client, FetchDialError(c) \/ Return(c)
  PROVE  /\ c \in Holders /\ idx[c] \in Slots
         /\ Holders' = Holders \ {c}
         /\ available' = Append(available, idx[c])
<1> USE DEF PoolInv
<1>1. c \in Holders /\ idx[c] \in Slots /\ Holders' = Holders \ {c}
  BY DEF FetchDialError, Return, Returning, Holders, TypeOK, TokenInv
<1>2. available' = Append(available, idx[c])
  <2>1. CASE FetchDialError(c)
    BY <2>1 DEF FetchDialError
  <2>2. CASE Return(c)
    <3>1. available' = available \o <<idx[c]>>
      BY <2>2 DEF Return, Returning
    <3>2. available \in Seq(Slots)
      BY DEF TypeOK
    <3> QED
      BY <1>1, <3>1, <3>2, AppendIsConcat
  <2> QED
    BY <2>1, <2>2
<1> QED
  BY <1>1, <1>2

\* The client gives its slot number back, after its RPC or after a dial error.
LEMMA GiveBackInv ==
  ASSUME PoolInv, NEW c \in Client, FetchDialError(c) \/ Return(c)
  PROVE  PoolInv'
<1> USE DEF PoolInv
<1>1. c \in Holders /\ idx[c] \in Slots /\ Holders' = Holders \ {c}
  BY NumberGoesBack
<1>2. available' = Append(available, idx[c])
  BY NumberGoesBack
<1>3. /\ UNCHANGED <<connections, dialed, open, closer, sweep, idx, crashed>>
      /\ step' = [step EXCEPT ![c] = "idle"]
  BY DEF FetchDialError, Return, Returning
<1>4. \A d \in Client : conn'[d] = IF d = c THEN NoConn ELSE conn[d]
  BY DEF FetchDialError, Return, Returning, TypeOK, SlotInv
<1>5. TypeOK'
  <2>1. available' \in Seq(Slots)
    BY <1>1, <1>2, AppendProperties DEF TypeOK
  <2>2. conn' \in [Client -> 0..dialed]
    <3>1. conn' = [conn EXCEPT ![c] = NoConn] \/ conn' = conn
      BY DEF FetchDialError, Return, Returning
    <3>2. NoConn \in 0..dialed /\ conn \in [Client -> 0..dialed]
      BY DEF TypeOK, NoConn
    <3> QED
      BY <3>1, <3>2
  <2> QED
    BY <1>3, <2>1, <2>2 DEF TypeOK, Slots
<1>6. TokenInv'
  BY <1>1, <1>2, <1>3, TokenReturned
<1>7. NoLeak'
  BY <1>3 DEF NoLeak, Slots
<1>8. ExclusiveConn'
  BY <1>4 DEF ExclusiveConn, NoConn
<1>9. SlotInv'
  BY <1>3, <1>4 DEF SlotInv, TypeOK, Slots, NoConn
<1> QED
  BY <1>5, <1>6, <1>7, <1>8, <1>9

\* close() empties one slot after the other, first the connection, then the slot.
LEMMA CloseInv ==
  ASSUME PoolInv, CloseBegin \/ Closing
  PROVE  PoolInv'
<1> USE DEF PoolInv
<1>1. UNCHANGED <<available, dialed, step, idx, conn, crashed>>
  BY DEF CloseBegin, Closing, CloseSkip, CloseConn, CloseClear, CloseEnd
<1>2. TokenInv'
  BY <1>1, TokensKept DEF Holders
<1>3. ExclusiveConn'
  BY <1>1 DEF ExclusiveConn, NoConn
<1>4. CASE CloseBegin \/ CloseEnd
  <2>1. /\ UNCHANGED <<connections, open>>
        /\ closer' \in {"idle", "visit"} /\ sweep' = 0
        /\ closer # "clear"
    BY <1>4 DEF CloseBegin, CloseEnd
  <2>2. TypeOK'
    BY <1>1, <2>1, PoolAssumption DEF TypeOK, Slots
  <2>3. NoLeak'
    BY <2>1 DEF NoLeak, Slots
  <2>4. \A s \in Slots : ~(s < sweep')
    BY <2>1, PoolAssumption DEF Slots
  <2>5. SlotInv'
    BY <1>1, <2>1, <2>4 DEF SlotInv, Slots, NoConn
  <2> QED
    BY <1>2, <1>3, <2>2, <2>3, <2>5
<1>5. CASE CloseSkip
  <2>1. /\ UNCHANGED <<connections, open, closer>>
        /\ closer = "visit" /\ sweep' = sweep + 1 /\ sweep < PoolSize
        /\ connections[sweep] = NoConn
    BY <1>5 DEF CloseSkip
  <2>2. TypeOK'
    BY <1>1, <2>1, PoolAssumption DEF TypeOK, Slots
  <2>3. NoLeak'
    BY <2>1 DEF NoLeak, Slots
  <2>4. \A s \in Slots : s < sweep' => connections[s] = NoConn
    <3> SUFFICES ASSUME NEW s \in Slots, s < sweep' PROVE connections[s] = NoConn
      OBVIOUS
    <3>1. s < sweep \/ s = sweep
      BY <2>1, PoolAssumption DEF TypeOK, Slots
    <3> QED
      BY <2>1, <3>1 DEF SlotInv
  <2>5. SlotInv'
    BY <1>1, <2>1, <2>4 DEF SlotInv, Slots, NoConn
  <2> QED
    BY <1>2, <1>3, <2>2, <2>3, <2>5
<1>6. CASE CloseConn
  <2>1. sweep \in Slots
    BY <1>6, PoolAssumption DEF CloseConn, TypeOK, Slots
  <2>2. /\ UNCHANGED <<connections, sweep>>
        /\ closer = "visit" /\ closer' = "clear"
        /\ connections[sweep] # NoConn
        /\ open' = open \ {connections[sweep]}
    BY <1>6 DEF CloseConn
  <2>3. TypeOK'
    BY <1>1, <2>2 DEF TypeOK, Slots
  <2>4. NoLeak'
    BY <2>2 DEF NoLeak, Slots
  <2>5. \A s \in Slots : connections[s] # NoConn => connections[s] \in open' \/ s = sweep
    BY <2>1, <2>2 DEF SlotInv
  <2>6. SlotInv'
    BY <1>1, <2>1, <2>2, <2>5 DEF SlotInv, Slots, NoConn
  <2> QED
    BY <1>2, <1>3, <2>3, <2>4, <2>6
<1>7. CASE CloseClear
  <2>1. sweep \in Slots
    BY <1>7 DEF CloseClear, SlotInv
  <2>2. \A s \in Slots : connections'[s] = IF s = sweep THEN NoConn ELSE connections[s]
    BY <1>7 DEF CloseClear, TypeOK
  <2>3. TypeOK'
    <3>1. connections' \in [Slots -> 0..dialed']
      <4>1. NoConn \in 0..dialed /\ connections \in [Slots -> 0..dialed]
        BY DEF TypeOK, NoConn
      <4>2. connections' = [connections EXCEPT ![sweep] = NoConn] /\ dialed' = dialed
        BY <1>1, <1>7 DEF CloseClear
      <4> QED
        BY <4>1, <4>2
    <3>2. sweep' \in 0..PoolSize
      BY <1>7, <2>1, PoolAssumption DEF CloseClear, Slots
    <3> QED
      BY <1>1, <1>7, <3>1, <3>2 DEF CloseClear, TypeOK, Slots
  <2>4. NoLeak'
    BY <1>7, <2>2 DEF CloseClear, NoLeak, SlotInv, Slots
  <2>5. closer = "clear" /\ closer' = "visit" /\ sweep' = sweep + 1 /\ open' = open
    BY <1>7 DEF CloseClear
  <2>6. \A s \in Slots : s < sweep' => connections'[s] = NoConn
    <3> SUFFICES ASSUME NEW s \in Slots, s < sweep' PROVE connections'[s] = NoConn
      OBVIOUS
    <3>1. s < sweep \/ s = sweep
      BY <2>5, PoolAssumption DEF TypeOK, Slots
    <3> QED
      BY <2>2, <2>5, <3>1 DEF SlotInv
  <2>7. SlotInv'
    BY <1>1, <2>1, <2>2, <2>5, <2>6 DEF SlotInv, Slots, NoConn
  <2> QED
    BY <1>2, <1>3, <2>3, <2>4, <2>7
<1> QED
  BY <1>4, <1>5, <1>6, <1>7 DEF Closing

\* A panic ends the process, and a stuttering step does nothing.
LEMMA PanicInv ==
  PoolInv /\ ((\E c \in Client : Panic(c)) \/ UNCHANGED vars) => PoolInv'
<1> SUFFICES ASSUME PoolInv, (\E c \in Client : Panic(c)) \/ UNCHANGED vars
             PROVE  PoolInv'
  OBVIOUS
<1> USE DEF PoolInv
<1>1. /\ UNCHANGED <<connections, available, dialed, open, closer, sweep, step, idx, conn>>
      /\ crashed' \in BOOLEAN
  BY DEF Panic, vars, TypeOK
<1>2. TypeOK'
  BY <1>1 DEF TypeOK, Slots
<1>3. TokenInv'
  BY <1>1, TokensKept DEF Holders
<1>4. NoLeak' /\ ExclusiveConn'
  BY <1>1 DEF NoLeak, ExclusiveConn, Slots, NoConn
<1>5. SlotInv'
  BY <1>1 DEF SlotInv, Slots, NoConn
<1> QED
  BY <1>2, <1>3, <1>4, <1>5

-----------------------------------------------------------------------------
(* The theorems.                                                           *)

\* PoolInv holds in every reachable state.
THEOREM PoolInvariant == Spec => []PoolInv
<1>1. PoolInv /\ [Next]_vars => PoolInv'
  BY FetchInv, LockedInv, GiveBackInv, CloseInv, PanicInv DEF Next, Serve
<1> QED
  BY InitInv, <1>1, PTL DEF Spec

\* The channel and the clients that hold a number share the slots out among them: no
\* error path loses a slot and none is handed out twice.
THEOREM TokenInvHolds == Spec => []TokenInv
<1>1. PoolInv => TokenInv
  BY DEF PoolInv
<1> QED
  BY <1>1, PoolInvariant, PTL

\* No two clients share a connection, with any number of clients, slots and restarts.
THEOREM ExclusiveConnHolds == Spec => []ExclusiveConn
<1>1. PoolInv => ExclusiveConn
  BY DEF PoolInv
<1> QED
  BY <1>1, PoolInvariant, PTL

\* A connection that is not in a slot has been closed.
THEOREM NoLeakHolds == Spec => []NoLeak
<1>1. PoolInv => NoLeak
  BY DEF PoolInv
<1> QED
  BY <1>1, PoolInvariant, PTL

\* close() leaves no connection open, although fetchConn looks at slots without the lock.
THEOREM CloseIsCompleteHolds == Spec => []CloseIsComplete
<1>1. PoolInv => CloseIsComplete
  <2> SUFFICES ASSUME PoolInv, closer = "visit", sweep = PoolSize, NEW k \in open
               PROVE  FALSE
    BY DEF CloseIsComplete
  <2>1. PICK s \in Slots : connections[s] = k
    BY DEF PoolInv, NoLeak
  <2>2. s < sweep
    BY PoolAssumption DEF Slots
  <2>3. k # NoConn
    BY DEF PoolInv, TypeOK, NoConn
  <2> QED
    BY <2>1, <2>2, <2>3 DEF PoolInv, SlotInv
<1> QED
  BY <1>1, PoolInvariant, PTL

\* Each step of the pool is one of the semaphore, or none.
LEMMA StepIsPermit == PoolInv /\ [Next]_vars => [Permits!Next]_(Permits!vars)
<1> SUFFICES ASSUME PoolInv, [Next]_vars PROVE [Permits!Next]_(Permits!vars)
  OBVIOUS
<1> USE DEF PoolInv
<1>1. ASSUME NEW c \in Client, FetchTake(c) PROVE Permits!Take(c)
  <2>1. Len(available) \in Nat \ {0} /\ Len(available') = Len(available) - 1
    BY <1>1, HeadTailProperties, EmptySeq, LenProperties DEF FetchTake, TypeOK
  <2>2. c \notin Holders /\ Holders' = Holders \cup {c}
    BY <1>1 DEF FetchTake, Holders, TypeOK
  <2> QED
    BY <2>1, <2>2 DEF Permits!Take
<1>2. ASSUME NEW c \in Client, FetchDialError(c) \/ Return(c) PROVE Permits!Give(c)
  <2>1. /\ c \in Holders /\ idx[c] \in Slots /\ Holders' = Holders \ {c}
        /\ available' = Append(available, idx[c])
    BY <1>2, NumberGoesBack
  <2>2. Len(available') = Len(available) + 1
    BY <2>1, AppendProperties DEF TypeOK
  <2> QED
    BY <2>1, <2>2 DEF Permits!Give
<1>3. ASSUME NEW c \in Client,
             \/ Fetch(c) \/ FetchTimeout(c) \/ FetchCheck(c) \/ FetchWrap(c)
             \/ FetchLocked(c) \/ Panic(c)
      PROVE  available' = available /\ Holders' = Holders
  BY <1>3 DEF Fetch, FetchTimeout, FetchCheck, FetchWrap, FetchLocked, Panic, Holders, TypeOK
<1>4. CASE CloseBegin \/ Closing \/ UNCHANGED vars
  <2>1. available' = available /\ Holders' = Holders
    BY <1>4 DEF CloseBegin, Closing, CloseSkip, CloseConn, CloseClear, CloseEnd, vars, Holders
  <2> QED
    BY <2>1 DEF Permits!vars
<1> QED
  BY <1>1, <1>2, <1>3, <1>4 DEF Next, Serve, Permits!Next, Permits!vars

\* Whatever the clients, slots, dial errors, timeouts and closes, the channel is a semaphore:
\* nothing is taken from it or put back but by a client that starts or ends its use.
THEOREM PoolIsSemaphore == Spec => ImplementsSemaphore
<1>1. Init => Permits!Init
  BY PoolAssumption, LenProperties DEF Init, Permits!Init, Holders
<1> QED
  BY <1>1, PoolInvariant, StepIsPermit, PTL DEF Spec, ImplementsSemaphore, Permits!Spec
=============================================================================
