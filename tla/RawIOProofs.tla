---------------------------- MODULE RawIOProofs ----------------------------
(***************************************************************************)
(* Proofs about RawIO for every image, request and width of off_t: types,  *)
(* exactly the requests refused that off_t cannot address, and that raw    *)
(* checked I/O implements Transfer.                                        *)
(***************************************************************************)
EXTENDS RawIO, TLAPS

(* Euclidean division, as the later proofs need it.                        *)
LEMMA Division ==
    ASSUME NEW a \in Nat, NEW d \in Nat \ {0}
    PROVE  /\ a \div d \in Nat /\ a % d \in 0..(d - 1)
           /\ a = d * (a \div d) + (a % d)
           /\ a < d => a % d = a
OBVIOUS

LEMMA WidthType == OffMax \in Nat /\ Width \in Nat /\ Width > OffMax + 1
BY RawIOAssumption DEF Width

(* A request is a byte range that starts at a natural number.              *)
LEMMA RequestType ==
    ASSUME NEW r \in Requests
    PROVE  /\ r.op \in {"read", "write"} /\ r.block \in BOOLEAN
           /\ r.at \in Nat /\ r.size \in Nat /\ r.size > 0
           /\ r.data \in [0..(r.size - 1) -> Byte]
           /\ Place(r) \in Nat /\ Offset(r) \in Nat
           /\ Place(r) < Width => Offset(r) = Place(r)
           /\ r.block => r.size = BlockSize
<1>1. Request(r)
    BY RawIOAssumption
<1>2. /\ r.op \in {"read", "write"} /\ r.block \in BOOLEAN
      /\ r.at \in Nat /\ r.size \in Nat /\ r.size > 0
      /\ r.data \in [0..(r.size - 1) -> Byte]
      /\ r.block => r.size = BlockSize
    BY <1>1, WidthType DEF Request
<1>3. r.at * BlockSize \in Nat
    BY <1>2, RawIOAssumption, WidthType
<1>4. Place(r) \in Nat
    BY <1>2, <1>3 DEF Place
<1>5. /\ Place(r) % Width \in Nat
      /\ Place(r) < Width => Place(r) % Width = Place(r)
  <2>1. Width \in Nat \ {0}
      BY WidthType
  <2>2. /\ Place(r) % Width \in 0..(Width - 1)
        /\ Place(r) < Width => Place(r) % Width = Place(r)
      BY <1>4, <2>1, Division
  <2> QED
      BY <2>1, <2>2
<1> QED
    BY <1>2, <1>4, <1>5 DEF Offset

-----------------------------------------------------------------------------
(* Every step of the program keeps the types.                              *)
LEMMA TypeStep == TypeOK /\ [Next]_vars => TypeOK'
<1> SUFFICES ASSUME TypeOK, [Next]_vars PROVE TypeOK'
    OBVIOUS
<1>0. request.size \in Nat /\ Offset(request) \in Nat
    BY RequestType DEF TypeOK
<1>1. CASE Call
  <2>1. request' \in Requests /\ request'.size \in Nat
      BY <1>1, RequestType DEF Call
  <2>2. buffer' \in [0..(request'.size - 1) -> Byte \cup {Stale}]
      BY <1>1 DEF Call, Unread
  <2> QED
      BY <1>1, <2>1, <2>2, RawIOAssumption DEF Call, TypeOK
<1>2. CASE Check
    BY <1>2 DEF Check, Return, TypeOK
<1>3. CASE Interrupt
    BY <1>3, RawIOAssumption DEF Interrupt, TypeOK
<1>4. CASE Move
  <2>1. PICK k \in 1..(request.size - total) :
            /\ Here + k <= Length
            /\ total' = total + k
            /\ IF request.op = "read"
               THEN /\ buffer' = [i \in DOMAIN buffer |->
                          IF i \in Chunk(k) THEN disk[Here + (i - total)] ELSE buffer[i]]
                    /\ UNCHANGED disk
               ELSE /\ disk' = [p \in Position |->
                          IF Here <= p /\ p < Here + k
                          THEN request.data[total + (p - Here)] ELSE disk[p]]
                    /\ UNCHANGED buffer
      BY <1>4 DEF Move
  <2>2. total \in Nat /\ Here = Offset(request) + total
      BY <1>0 DEF TypeOK, Here
  <2>3. total' \in 0..request.size
      BY <1>0, <2>1, <2>2
  <2>4. CASE request.op = "read"
    <3>1. ASSUME NEW i \in DOMAIN buffer, i \in Chunk(k)
          PROVE  disk[Here + (i - total)] \in Byte
      <4>1. i \in Nat /\ k \in Nat /\ total <= i /\ i < total + k /\ Length \in Nat
          BY <1>0, <2>2, <3>1, RawIOAssumption DEF Chunk, TypeOK
      <4>2. Here + (i - total) \in Position
          BY <1>0, <2>1, <2>2, <4>1 DEF Position
      <4> QED
          BY <4>2 DEF TypeOK
    <3> QED
        BY <1>4, <2>1, <2>3, <2>4, <3>1 DEF Move, TypeOK
  <2>5. CASE request.op # "read"
    <3>1. request.data \in [0..(request.size - 1) -> Byte]
        BY RequestType DEF TypeOK
    <3>2. ASSUME NEW p \in Position, Here <= p, p < Here + k
          PROVE  request.data[total + (p - Here)] \in Byte
      <4>1. p \in Nat /\ k \in Nat /\ k <= request.size - total
          BY <1>0, <2>2, RawIOAssumption DEF Position
      <4>2. total + (p - Here) \in 0..(request.size - 1)
          BY <1>0, <2>2, <3>2, <4>1
      <4> QED
          BY <3>1, <4>2
    <3> QED
        BY <1>4, <2>1, <2>3, <2>5, <3>2 DEF Move, TypeOK
  <2> QED
      BY <2>4, <2>5
<1>5. CASE Done
    BY <1>5 DEF Done, Return, TypeOK
<1>6. CASE Stop
    BY <1>6 DEF Stop, Return, TypeOK
<1>7. CASE Kill
    BY <1>7 DEF Kill, Return, TypeOK
<1>8. CASE UNCHANGED vars
    BY <1>8 DEF vars, TypeOK
<1> QED
    BY <1>1, <1>2, <1>3, <1>4, <1>5, <1>6, <1>7, <1>8 DEF Next, Step

(* Type correctness of the raw I/O layer. *)
THEOREM TypeCorrect == Spec => []TypeOK
<1>1. Init => TypeOK
    BY RawIOAssumption, RequestType DEF Init, TypeOK, Unread
<1> QED
    BY <1>1, TypeStep, PTL DEF Spec

-----------------------------------------------------------------------------
(* The byte offset of a block that read_block or write_block accepts, and  *)
(* of its last byte, are offsets off_t can hold.                           *)
THEOREM BlockOffsetFits ==
    ASSUME BlockSize <= OffMax, NEW index \in Nat, index <= MaxIndex
    PROVE  index * BlockSize + (BlockSize - 1) <= OffMax
<1> DEFINE room == OffMax - (BlockSize - 1)
<1>0. BlockSize \in Nat \ {0} /\ OffMax \in Nat
    BY RawIOAssumption, WidthType
<1>1. room \in Nat /\ MaxIndex = room \div BlockSize
    BY <1>0 DEF MaxIndex
<1>2. MaxIndex \in Nat /\ MaxIndex * BlockSize <= room
    BY <1>0, <1>1
<1>3. index * BlockSize <= MaxIndex * BlockSize
    BY <1>0, <1>2
<1> QED
    BY <1>0, <1>1, <1>2, <1>3

(* A block whose end is within off_t has an index below the largest.       *)
LEMMA SmallIndexAccepted ==
    ASSUME NEW index \in Nat, index * BlockSize + BlockSize <= OffMax
    PROVE  BlockSize <= OffMax /\ index <= MaxIndex
<1> DEFINE room == OffMax - (BlockSize - 1)
<1>0. BlockSize \in Nat \ {0} /\ OffMax \in Nat /\ index * BlockSize \in Nat
    BY RawIOAssumption, WidthType
<1>1. room \in Nat /\ index * BlockSize <= room
    BY <1>0
<1>2. \A q, rest \in Nat : index * BlockSize <= BlockSize * q + rest /\ rest < BlockSize => index <= q
  <2> SUFFICES ASSUME NEW q \in Nat, NEW rest \in Nat, rest < BlockSize, index > q
               PROVE  BlockSize * q + rest < index * BlockSize
      BY <1>0
  <2>1. (q + 1) * BlockSize <= index * BlockSize
      BY <1>0
  <2>2. (q + 1) * BlockSize = BlockSize * q + BlockSize
      BY <1>0
  <2> QED
      BY <1>0, <2>1, <2>2
<1>3. /\ room \div BlockSize \in Nat /\ room % BlockSize \in 0..(BlockSize - 1)
      /\ room = BlockSize * (room \div BlockSize) + (room % BlockSize)
    BY <1>0, <1>1, Division
<1>4. index <= room \div BlockSize
    BY <1>0, <1>1, <1>2, <1>3
<1> QED
    BY <1>0, <1>4 DEF MaxIndex

(* What passes the checks starts where the caller means it to start.       *)
LEMMA ValidInPlace ==
    ASSUME NEW r \in Requests, BlockRequestValid(r), OffsetRequestValid(r)
    PROVE  Offset(r) = Place(r)
<1>1. CASE r.block
  <2>1. r.at \in Nat /\ BlockSize \in Nat /\ OffMax \in Nat /\ r.at * BlockSize \in Nat
      BY RequestType, RawIOAssumption, WidthType
  <2>2. r.at * BlockSize + (BlockSize - 1) <= OffMax
      BY <1>1, <2>1, BlockOffsetFits DEF BlockRequestValid
  <2>3. Place(r) < Width
      BY <1>1, <2>1, <2>2, RawIOAssumption, WidthType DEF Place
  <2> QED
      BY <2>3, RequestType
<1>2. CASE ~r.block
  <2>1. Place(r) = r.at /\ r.at \in 0..(Width - 1)
      BY <1>2, RawIOAssumption DEF Place, Request
  <2> QED
      BY <2>1, RequestType, WidthType
<1> QED
    BY <1>1, <1>2

(* The checks, on wrapped products, are the comparison of whole numbers.   *)
LEMMA ValidIsExact ==
    ASSUME NEW r \in Requests
    PROVE  BlockRequestValid(r) /\ OffsetRequestValid(r) <=> Place(r) + r.size <= OffMax
<1>0. /\ r.size \in Nat /\ r.size > 0 /\ Place(r) \in Nat /\ Offset(r) \in Nat
      /\ r.at \in Nat /\ OffMax \in Nat /\ BlockSize \in Nat \ {0}
    BY RequestType, RawIOAssumption, WidthType
<1>1. ASSUME BlockRequestValid(r), OffsetRequestValid(r)
      PROVE  Place(r) + r.size <= OffMax
    BY <1>0, <1>1, ValidInPlace DEF OffsetRequestValid
<1>2. ASSUME Place(r) + r.size <= OffMax
      PROVE  BlockRequestValid(r) /\ OffsetRequestValid(r)
  <2>1. Offset(r) = Place(r)
      BY <1>0, <1>2, RequestType, WidthType
  <2>2. OffsetRequestValid(r)
      BY <1>0, <1>2, <2>1 DEF OffsetRequestValid
  <2>3. ASSUME r.block PROVE BlockRequestValid(r)
    <3>1. Place(r) = r.at * BlockSize /\ r.size = BlockSize
        BY <2>3, RequestType DEF Place
    <3>2. BlockSize <= OffMax /\ r.at <= MaxIndex
        BY <1>0, <1>2, <3>1, SmallIndexAccepted
    <3>3. (r.at * BlockSize) \div BlockSize = r.at
        BY <1>0
    <3> QED
        BY <2>1, <3>1, <3>2, <3>3 DEF BlockRequestValid
  <2> QED
      BY <2>2, <2>3 DEF BlockRequestValid
<1> QED
    BY <1>1, <1>2

(* Exactly the requests are refused that off_t cannot address to their     *)
(* end: no product that has wrapped is let through, and nothing that could *)
(* be read or written is turned away.                                      *)
THEOREM ChecksAreExact == Spec => RefusedExactly
<1>1. TypeOK => [Check => (pc' = "move" <=> Place(request) + request.size <= OffMax)]_vars
  <2> SUFFICES ASSUME TypeOK, Check
               PROVE  pc' = "move" <=> Place(request) + request.size <= OffMax
      OBVIOUS
  <2>1. BlockRequestValid(request) /\ OffsetRequestValid(request)
            <=> Place(request) + request.size <= OffMax
      BY ValidIsExact DEF TypeOK
  <2> QED
      BY <2>1 DEF Check, Return
<1> QED
    BY <1>1, TypeCorrect, PTL DEF Spec, RefusedExactly

-----------------------------------------------------------------------------
(* What a request has done so far: a write has replaced the first total    *)
(* bytes of its range and nothing else, a read has fetched the first total *)
(* bytes of it and changed nothing, and neither is beyond the image.  The  *)
(* range is the one the caller means; what is transferred starts there.    *)
Progress ==
    pc # "idle" =>
        /\ pc = "move" => Offset(request) = Place(request)
        /\ total > 0 => Place(request) + total <= Length
        /\ request.op = "write" => disk = T!Written(before, SeenRequest, total)
        /\ request.op = "read" =>
            /\ disk = before
            /\ \A i \in 0..(total - 1) : buffer[i] = before[Place(request) + i]

(* A new request has done nothing.                                         *)
LEMMA ProgressCall == TypeOK /\ Call => Progress'
<1> SUFFICES ASSUME TypeOK, Call PROVE Progress'
    OBVIOUS
<1>1. total' = 0 /\ before' = disk /\ disk' = disk /\ Place(request') \in Nat
    BY RequestType DEF Call
<1>2. disk \in [Position -> Byte] /\ T!Position = Position
    BY DEF TypeOK, T!Position, Position
<1>3. SeenRequest'.offset = Place(request')
    BY DEF SeenRequest, Place
<1>4. \A p \in Position : ~(Place(request') <= p /\ p < Place(request') + 0)
    BY <1>1, RawIOAssumption DEF Position
<1>5. T!Written(before, SeenRequest, total)' = [p \in Position |-> disk[p]]
    BY <1>1, <1>2, <1>3, <1>4 DEF T!Written
<1>6. disk' = T!Written(before, SeenRequest, total)'
    BY <1>1, <1>2, <1>5
<1> QED
    BY <1>1, <1>6 DEF Progress, Call

(* A system call extends what has been done by the bytes it moves.         *)
LEMMA ProgressMove == TypeOK /\ Progress /\ Move => Progress'
<1> SUFFICES ASSUME TypeOK, Progress, Move PROVE Progress'
    OBVIOUS
<1>0. /\ request' = request /\ SeenRequest' = SeenRequest /\ before' = before
      /\ Place(request') = Place(request) /\ Place(request) \in Nat
      /\ request.size \in Nat /\ total \in Nat /\ Length \in Nat
      /\ Here = Place(request) + total /\ pc = "move"
  <2>1. request' = request /\ before' = before /\ pc = "move"
      BY DEF Move
  <2>2. SeenRequest' = SeenRequest /\ Place(request') = Place(request)
      BY <2>1 DEF SeenRequest, Place
  <2>3. Place(request) \in Nat /\ request.size \in Nat /\ total \in Nat /\ Length \in Nat
      BY RequestType, RawIOAssumption DEF Place, TypeOK
  <2>4. Here = Place(request) + total
      BY <2>1 DEF Here, Progress
  <2> QED
      BY <2>1, <2>2, <2>3, <2>4
<1>1. PICK k \in 1..(request.size - total) :
          /\ Here + k <= Length
          /\ total' = total + k
          /\ IF request.op = "read"
             THEN /\ buffer' = [i \in DOMAIN buffer |->
                        IF i \in Chunk(k) THEN disk[Here + (i - total)] ELSE buffer[i]]
                  /\ UNCHANGED disk
             ELSE /\ disk' = [p \in Position |->
                        IF Here <= p /\ p < Here + k
                        THEN request.data[total + (p - Here)] ELSE disk[p]]
                  /\ UNCHANGED buffer
    BY DEF Move
<1>2. Place(request') + total' <= Length
    BY <1>0, <1>1
<1>3. ASSUME request.op = "write"
      PROVE  disk' = T!Written(before', SeenRequest', total')
  <2>1. /\ SeenRequest.offset = Place(request) /\ SeenRequest.data = request.data
        /\ T!Position = Position /\ Position \subseteq Nat
      BY RawIOAssumption DEF SeenRequest, T!Position, Position
  <2>2. \A p \in Position : disk[p] =
            IF Place(request) <= p /\ p < Place(request) + total
            THEN request.data[p - Place(request)] ELSE before[p]
      BY <1>0, <1>3, <2>1 DEF Progress, T!Written
  <2>3. disk' = [p \in Position |->
            IF Here <= p /\ p < Here + k
            THEN request.data[total + (p - Here)] ELSE disk[p]]
      BY <1>1, <1>3
  <2>4. T!Written(before', SeenRequest', total') = [p \in Position |->
            IF Place(request) <= p /\ p < Place(request) + (total + k)
            THEN request.data[p - Place(request)] ELSE before[p]]
      BY <1>0, <1>1, <2>1 DEF T!Written
  <2>5. ASSUME NEW p \in Position
        PROVE  (IF Here <= p /\ p < Here + k
                THEN request.data[total + (p - Here)] ELSE disk[p])
             = (IF Place(request) <= p /\ p < Place(request) + (total + k)
                THEN request.data[p - Place(request)] ELSE before[p])
    <3>1. p \in Nat /\ k \in Nat /\ k > 0
        BY <1>0, <2>1
    <3>2. CASE Here <= p /\ p < Here + k
      <4>1. total + (p - Here) = p - Place(request)
          BY <1>0, <3>1
      <4>2. Place(request) <= p /\ p < Place(request) + (total + k)
          BY <1>0, <3>1, <3>2
      <4> QED
          BY <3>2, <4>1, <4>2
    <3>3. CASE ~(Here <= p /\ p < Here + k)
      <4>1. (Place(request) <= p /\ p < Place(request) + (total + k))
             <=> (Place(request) <= p /\ p < Place(request) + total)
          BY <1>0, <3>1, <3>3
      <4> QED
          BY <2>2, <3>3, <4>1
    <3> QED
        BY <3>2, <3>3
  <2> QED
      BY <2>3, <2>4, <2>5
<1>4. ASSUME request.op = "read"
      PROVE  /\ disk' = before'
             /\ \A i \in 0..(total' - 1) : buffer'[i] = before'[Place(request') + i]
  <2>1. /\ disk' = disk /\ disk = before
        /\ buffer' = [i \in DOMAIN buffer |->
              IF i \in Chunk(k) THEN disk[Here + (i - total)] ELSE buffer[i]]
        /\ DOMAIN buffer = 0..(request.size - 1)
      BY <1>0, <1>1, <1>4 DEF Progress, TypeOK
  <2>2. ASSUME NEW i \in 0..(total' - 1)
        PROVE  buffer'[i] = before[Place(request) + i]
    <3>1. i \in DOMAIN buffer /\ i \in Nat
        BY <1>0, <1>1, <2>1
    <3>2. CASE i \in Chunk(k)
      <4>1. Here + (i - total) = Place(request) + i
          BY <1>0, <3>1
      <4> QED
          BY <2>1, <3>1, <3>2, <4>1
    <3>3. CASE i \notin Chunk(k)
      <4>1. i \in 0..(total - 1)
          BY <1>0, <1>1, <3>1, <3>3 DEF Chunk
      <4> QED
          BY <1>0, <1>4, <2>1, <3>1, <3>3, <4>1 DEF Progress
    <3> QED
        BY <3>2, <3>3
  <2> QED
      BY <1>0, <2>1, <2>2
<1> QED
    BY <1>0, <1>2, <1>3, <1>4 DEF Progress

(* The other steps move no byte. *)
LEMMA ProgressStep == TypeOK /\ Progress /\ [Next]_vars => Progress'
<1> SUFFICES ASSUME TypeOK, Progress, [Next]_vars PROVE Progress'
    OBVIOUS
<1>1. CASE Call
    BY <1>1, ProgressCall
<1>2. CASE Move
    BY <1>2, ProgressMove
<1>3. CASE Check \/ Interrupt \/ Done \/ Stop \/ Kill \/ UNCHANGED vars
  <2>1. /\ UNCHANGED <<disk, request, total, buffer, before>>
        /\ pc' # "idle" => pc # "idle"
      BY <1>3 DEF Check, Interrupt, Done, Stop, Kill, Return, vars
  <2>2. SeenRequest' = SeenRequest /\ Place(request') = Place(request)
      BY <2>1 DEF SeenRequest, Place
  <2>3. Offset(request') = Offset(request)
      BY <2>1, <2>2 DEF Offset
  <2>4. pc' = "move" => Offset(request) = Place(request)
    <3>1. CASE Check
        BY <3>1, ValidInPlace DEF Check, Return, TypeOK
    <3>2. CASE Interrupt \/ Done \/ Stop \/ Kill \/ UNCHANGED vars
        BY <3>2 DEF Interrupt, Done, Stop, Kill, Return, vars, Progress
    <3> QED
        BY <1>3, <3>1, <3>2
  <2> QED
      BY <2>1, <2>2, <2>3, <2>4 DEF Progress, T!Written
<1> QED
    BY <1>1, <1>2, <1>3 DEF Next, Step

(* A request in progress has moved exactly the first bytes of its range. *)
THEOREM ProgressIsExact == Spec => []Progress
<1>1. Init => Progress
    BY DEF Init, Progress
<1> QED
    BY <1>1, ProgressStep, TypeCorrect, PTL DEF Spec

-----------------------------------------------------------------------------
Seen == <<SeenDisk, SeenRequest, SeenOutcome, SeenGot>>

(* The step that completes a request is the abstract success.              *)
LEMMA DoneSucceeds == TypeOK /\ Progress /\ Done => T!Succeed
<1> SUFFICES ASSUME TypeOK, Progress, Done PROVE T!Succeed
    OBVIOUS
<1>0. /\ pc = "move" /\ pc' = "idle" /\ outcome' = "ok" /\ total = request.size
      /\ UNCHANGED <<disk, request, buffer, before>>
    BY DEF Done, Return
<1>1. /\ SeenOutcome = "pending" /\ SeenOutcome' = "ok"
      /\ SeenRequest' = SeenRequest /\ SeenDisk = before /\ SeenDisk' = disk
      /\ SeenGot = << >>
      /\ SeenGot' = IF request.op = "read" THEN buffer ELSE << >>
    BY <1>0 DEF SeenOutcome, SeenRequest, SeenDisk, SeenGot, Place
<1>2. /\ SeenRequest.op = request.op /\ SeenRequest.offset = Place(request)
      /\ SeenRequest.size = request.size
    BY DEF SeenRequest
<1>3. /\ request.size \in Nat /\ request.size > 0
      /\ request.op \in {"read", "write"}
    BY RequestType DEF TypeOK
<1>4. SeenRequest.offset + SeenRequest.size <= Length
    BY <1>0, <1>2, <1>3 DEF Progress
<1>5. CASE request.op = "read"
  <2>1. /\ disk = before
        /\ \A i \in 0..(request.size - 1) : buffer[i] = before[Place(request) + i]
      BY <1>0, <1>5 DEF Progress
  <2>2. buffer \in [0..(request.size - 1) -> Byte \cup {Stale}]
      BY DEF TypeOK
  <2>3. buffer = [i \in 0..(request.size - 1) |-> before[Place(request) + i]]
      BY <2>1, <2>2
  <2> QED
      BY <1>1, <1>2, <1>4, <1>5, <2>1, <2>3 DEF T!Succeed
<1>6. CASE request.op = "write"
  <2>1. disk = T!Written(before, SeenRequest, request.size)
      BY <1>0, <1>6 DEF Progress
  <2> QED
      BY <1>1, <1>2, <1>4, <1>6, <2>1 DEF T!Succeed
<1> QED
    BY <1>3, <1>5, <1>6

(* A request that is refused, stopped or killed is the abstract failure.   *)
LEMMA StopFails ==
    ASSUME TypeOK, Progress, pc # "idle", pc' = "idle", outcome' = "failed",
           UNCHANGED <<disk, request, total, buffer, before>>
    PROVE  T!Fail
<1>1. /\ SeenOutcome = "pending" /\ SeenOutcome' = "failed"
      /\ SeenRequest' = SeenRequest /\ SeenDisk = before /\ SeenDisk' = disk
      /\ SeenGot = << >> /\ SeenGot' = << >>
    BY DEF SeenOutcome, SeenRequest, SeenDisk, SeenGot, Place
<1>2. /\ SeenRequest.op = request.op /\ SeenRequest.size = request.size
      /\ request.op \in {"read", "write"} /\ total \in 0..request.size
    BY RequestType DEF SeenRequest, TypeOK
<1>3. CASE request.op = "read"
    BY <1>1, <1>3 DEF Progress, T!Fail
<1>4. CASE request.op = "write"
  <2>1. disk = T!Written(before, SeenRequest, total)
      BY <1>4 DEF Progress
  <2> QED
      BY <1>1, <1>2, <1>4, <2>1 DEF T!Fail
<1> QED
    BY <1>2, <1>3, <1>4

(* Raw checked I/O keeps its promise: whatever is interrupted or cut       *)
(* short, a request that returns 0 has moved exactly its bytes, and one    *)
(* that fails has at most written a prefix of them.                        *)
THEOREM Implementation == Spec => ImplementsTransfer
<1>1. Init => T!Init
    BY DEF Init, T!Init, SeenDisk, SeenOutcome, SeenGot, T!Position, Position, T!Nothing
<1>2. TypeOK /\ Progress /\ [Next]_vars => [T!Next]_Seen
  <2> SUFFICES ASSUME TypeOK, Progress, [Next]_vars PROVE [T!Next]_Seen
      OBVIOUS
  <2>1. CASE Call
    <3>1. /\ SeenOutcome # "pending" /\ SeenOutcome' = "pending"
          /\ SeenDisk' = SeenDisk /\ SeenGot' = << >>
        BY <2>1 DEF Call, SeenOutcome, SeenDisk, SeenGot, TypeOK
    <3>2. SeenRequest'.op = request'.op /\ request'.op \in {"read", "write"}
        BY <2>1, RequestType DEF Call, SeenRequest
    <3> QED
        BY <3>1, <3>2 DEF T!Ask, T!Next, T!Nothing
  <2>2. CASE Done
      BY <2>2, DoneSucceeds DEF T!Next
  <2>3. CASE (Check /\ pc' = "idle") \/ Stop \/ Kill
      BY <2>3, StopFails DEF Check, Stop, Kill, Return, T!Next
  <2>4. CASE (Check /\ pc' # "idle") \/ Interrupt \/ Move
    <3>1. /\ pc # "idle" /\ pc' # "idle" /\ UNCHANGED <<request, before>>
        BY <2>4 DEF Check, Interrupt, Move, Return
    <3> QED
        BY <3>1 DEF Seen, SeenDisk, SeenRequest, SeenOutcome, SeenGot, Place
  <2>5. CASE UNCHANGED vars
      BY <2>5 DEF vars, Seen, SeenDisk, SeenRequest, SeenOutcome, SeenGot, Place
  <2> QED
      BY <2>1, <2>2, <2>3, <2>4, <2>5 DEF Next, Step
<1> QED
    BY <1>1, <1>2, TypeCorrect, ProgressIsExact, PTL
    DEF Spec, ImplementsTransfer, T!Spec, Seen
=============================================================================
