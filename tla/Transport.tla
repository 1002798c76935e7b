----------------------------- MODULE Transport -----------------------------
(***************************************************************************)
(* The encoding of a proof, or of the requests of a sync, as a string of   *)
(* bytes, and its decoding.  A proof's strands come first and then its     *)
(* commands, which are written relative to a current strand that both      *)
(* sides keep track of.                                                    *)
(*                                                                         *)
(* Encoder and decoder go through their string once, in one direction, and *)
(* never look ahead, so that they may as well run side by side, one of     *)
(* them writing onto the wire what the other reads off it.  The strands    *)
(* are for integer keys, one after the other, or for named keys.           *)
(***************************************************************************)
EXTENDS IntegerKeys, SequencesExt, Folds, TLC

CONSTANTS
  Depths,        \* depths of strands and requests
  ValSizes,      \* sizes of values
  FirstIntegers, \* the integers that the first strand may be for
  StrandCounts,  \* how many strands a proof may have
  Offsets        \* the strands that commands may be for

ASSUME DepthsAssumption == Depths \subseteq Nat
ASSUME CountsAssumption == StrandCounts \subseteq Nat

VARIABLES
  format,     \* what the string holds: "HashedKeys" or "FullKeys" proofs, or "Requests"
  first,      \* the integer of the first strand
  phase,      \* of the encoder: "strands", "cmds", "closed", or "thrown"
  written,    \* how many strands it has written
  pending,    \* the set with the command it is at, if any
  encPos,     \* its currPos
  hashQueue,
  wire,       \* what was written and not read yet
  reading,    \* of the decoder: "strands", "cmds", or "thrown"
  read,       \* how many strands it has read
  decPos,     \* its currPos
  owed,       \* history: the strands and commands on their way
  got         \* history: what was read in the last step

encoder == <<format, first, phase, written, pending, encPos, hashQueue>>
decoder == <<reading, read, decPos>>
vars == <<encoder, decoder, wire, owed, got>>

---------------------------------------------------------------------------
(* Pieces of the string.  The contents of a value, a hash or a name matter *)
(* to nobody: they are one byte, repeated.                                 *)

Byte(b)        == <<b % 256>>
Bytes(size, b) == [i \in 1 .. size |-> b]

(* encodeVarInt: base 128, the most significant digit first.               *)
VarInt(n) ==
  LET digits == Max({1} \cup {d \in 1 .. 4 : 128^(d - 1) <= n}) IN
  [i \in 1 .. digits |-> ((n \div 128^(digits - i)) % 128) + (IF i < digits THEN 128 ELSE 0)]

(* encodeKeyHash                                                           *)
KeyHash(key) ==
  LET size == Max({0} \cup {i \in DOMAIN key : key[i] # 0}) IN
  Byte(KeyBytes - size) \o SubSeq(key, 1, size)

(* A getter returns what it takes off a string; it throws if that is too   *)
(* short.                                                                  *)
Took(val, string, size) == [ok |-> TRUE, val |-> val, rest |-> SubSeq(string, size + 1, Len(string))]
Short == [ok |-> FALSE, val |-> <<>>, rest |-> <<>>]

GetBytes(string, size) ==
  IF size \notin 0 .. Len(string) THEN Short ELSE Took(SubSeq(string, 1, size), string, size)

GetByte(string) == IF string = <<>> THEN [Short EXCEPT !.val = 0] ELSE Took(Head(string), string, 1)

GetVarInt(string) ==
  LET size == SelectInSeq(string, LAMBDA byte : byte < 128) IN
  IF size = 0 THEN [Short EXCEPT !.val = 0]
  ELSE Took(FoldLeft(LAMBDA n, byte : n * 128 + (byte % 128), 0, SubSeq(string, 1, size)), string, size)

GetKeyHash(string) ==
  LET zeros == GetByte(string)
      key   == GetBytes(zeros.rest, KeyBytes - zeros.val)
  IN  IF ~zeros.ok \/ ~key.ok THEN Short
      ELSE [key EXCEPT !.val = @ \o Bytes(zeros.val, 0)]

---------------------------------------------------------------------------
(* The items                                                               *)

Types == <<"Leaf", "Invalid", "WitnessLeaf", "WitnessEmpty", "Witness">>
TypeByte(type) == SelectInSeq(Types, LAMBDA t : t = type) - 1

NoName  == <<>>
Name    == <<77>>
HashOf(name) == Bytes(KeyBytes - 1, 200) \o <<0>>     \* Key::hash, of the only name there is

Strand(type, depth, keyHash, val, key) ==
  [type |-> type, depth |-> depth, keyHash |-> keyHash, val |-> val, key |-> key]

(* The strands that may come next: records with the next integer as their  *)
(* key, records with a name, and witnesses.                                *)
NextStrands ==
  LET keyHash == FromInteger(first + written) IN
  {Strand("Leaf", d, keyHash, Bytes(n, 128), NoName) : d \in Depths, n \in ValSizes}
    \cup {Strand("Leaf", d, HashOf(Name), Bytes(n, 0), Name) : d \in Depths, n \in ValSizes}
    \cup {Strand("WitnessEmpty", d, keyHash, <<>>, NoName) : d \in Depths}
    \cup {Strand(t, d, keyHash, Bytes(KeyBytes, 1), NoName) : t \in {"WitnessLeaf", "Witness"}, d \in Depths}

Cmds ==
  {[op |-> "HashProvided", at |-> i, hash |-> Bytes(KeyBytes, h)] : i \in Offsets, h \in {0, 255}}
    \cup {[op |-> op, at |-> i, hash |-> <<>>] : op \in {"HashEmpty", "Merge"}, i \in Offsets}

Requests ==
  [path : {FromInteger(n) : n \in FirstIntegers} \cup {Bytes(KeyBytes, 0)},
   startDepth : Depths \cup {256}, depthLimit : {1, 4}, expandLeaves : BOOLEAN]

(* What of a strand is in the string: the name of a record only with       *)
(* FullKeys.                                                               *)
Carried(strand) == IF format = "FullKeys" THEN strand ELSE [strand EXCEPT !.key = NoName]

---------------------------------------------------------------------------
(* encodeProof.  It gives the decoder one piece at a time.                 *)

Write(bytes) == wire = <<>> /\ wire' = bytes
Owe(item)    == owed' = Append(owed, item) /\ got' = <<>>

EncodeStrand(strand) ==
  Byte(TypeByte(strand.type)) \o Byte(strand.depth)
    \o CASE strand.type = "Leaf" ->
              (IF format = "FullKeys" THEN VarInt(Len(strand.key)) \o strand.key
               ELSE KeyHash(strand.keyHash))
                \o VarInt(Len(strand.val)) \o strand.val
         [] strand.type = "WitnessEmpty" -> KeyHash(strand.keyHash)
         [] OTHER -> KeyHash(strand.keyHash) \o strand.val

WriteStrand(strand) ==
  /\ format # "Requests" /\ phase = "strands"
  /\ written < Max(StrandCounts)
  /\ Write(EncodeStrand(strand))
  /\ Owe(Carried(strand))
  /\ written' = written + 1
  /\ UNCHANGED <<format, first, phase, pending, encPos, hashQueue, decoder>>

(* A name is missing.                                                      *)
RefuseStrand(strand) ==
  /\ format = "FullKeys" /\ strand.type = "Leaf" /\ strand.key = NoName
  /\ phase = "strands" /\ wire = <<>>
  /\ phase' = "thrown"
  /\ UNCHANGED <<format, first, written, pending, encPos, hashQueue, decoder, wire, owed, got>>

EndStrands ==
  /\ format # "Requests" /\ phase = "strands"
  /\ written \in StrandCounts
  /\ Write(Byte(TypeByte("Invalid")))
  /\ phase' = IF written = 0 THEN "closed" ELSE "cmds"
  /\ encPos' = written - 1
  /\ UNCHANGED <<format, first, written, pending, hashQueue, decoder, owed, got>>

(* A byte of marker and hash bits, the last command's bit in front, and    *)
(* the hashes that go with it.                                             *)
HashBits(queue) ==
  FoldLeftDomain(LAMBDA bits, i : bits + (IF queue[i].op = "HashProvided" THEN 2^(i - 1) ELSE 0), 0, queue)

(* Mutant: the bits are not shifted to the front of the byte.              *)
FlushedUnaligned(queue) ==
  IF queue = <<>> THEN <<>>
  ELSE Byte(HashBits(queue) * 2 + 1) \o FlattenSeq([i \in DOMAIN queue |-> queue[i].hash])

Flushed(queue) ==
  IF queue = <<>> THEN <<>>
  ELSE Byte((HashBits(queue) * 2 + 1) * 2^(6 - Len(queue)))
         \o FlattenSeq([i \in DOMAIN queue |-> queue[i].hash])

TakeCmd(cmd) ==
  /\ phase = "cmds" /\ pending = {} /\ wire = <<>>
  /\ cmd.at < written
  /\ pending' = {cmd}
  /\ Owe(cmd)
  /\ UNCHANGED <<format, first, phase, written, encPos, hashQueue, decoder, wire>>

AbsInt(n) == IF n < 0 THEN -n ELSE n
LogDistance(n) == Max({b \in 1 .. 31 : n >= 2^(b - 1)})

(* Mutant: a long jump goes to the next power of two.                      *)
DistanceBeyond(delta) ==
  IF AbsInt(delta) < 64 THEN Min({AbsInt(delta), 32}) ELSE 2^LogDistance(AbsInt(delta))

(* How far the next jump goes, and the byte that says so.                  *)
Distance(delta) ==
  IF AbsInt(delta) < 64 THEN Min({AbsInt(delta), 32}) ELSE 2^(LogDistance(AbsInt(delta)) - 1)

JumpByte(delta) ==
  (IF delta > 0 THEN 128 ELSE 160)
    + (IF AbsInt(delta) < 64 THEN Distance(delta) - 1 ELSE 64 + LogDistance(Distance(delta)) - 7)

Jump(cmd) ==
  LET delta == cmd.at - encPos IN
  /\ delta # 0
  /\ Write(Flushed(hashQueue) \o Byte(JumpByte(delta)))
  /\ hashQueue' = <<>>
  /\ encPos' = encPos + (IF delta > 0 THEN Distance(delta) ELSE -Distance(delta))
  /\ UNCHANGED <<format, first, phase, written, pending, decoder, owed, got>>

WriteCmd(cmd) ==
  LET queue == Append(hashQueue, cmd) IN
  /\ cmd.at = encPos
  /\ pending' = {}
  /\ IF cmd.op = "Merge" THEN Write(Flushed(hashQueue) \o Byte(0)) /\ hashQueue' = <<>>
     ELSE IF Len(queue) = 6 THEN Write(Flushed(queue)) /\ hashQueue' = <<>>
     ELSE Write(<<>>) /\ hashQueue' = queue
  /\ UNCHANGED <<format, first, phase, written, encPos, decoder, owed, got>>

(* Mutant: what is queued at the end of the string stays in the queue.     *)
CloseUnflushed ==
  /\ phase = IF format = "Requests" THEN "strands" ELSE "cmds"
  /\ pending = {}
  /\ wire = <<>>
  /\ phase' = "closed"
  /\ UNCHANGED <<format, first, written, pending, encPos, hashQueue, decoder, wire, owed, got>>

(* The end of the string.                                                  *)
Close ==
  /\ phase = IF format = "Requests" THEN "strands" ELSE "cmds"
  /\ pending = {}
  /\ Write(Flushed(hashQueue))
  /\ hashQueue' = <<>>
  /\ phase' = "closed"
  /\ UNCHANGED <<format, first, written, pending, encPos, decoder, owed, got>>

(* encodeSyncRequests: what is too big for a byte is refused.              *)
WriteRequest(req) ==
  /\ format = "Requests" /\ phase = "strands"
  /\ IF req.startDepth > 255
     THEN phase' = "thrown" /\ UNCHANGED <<wire, owed, got>>
     ELSE /\ Write(KeyHash(req.path) \o Byte(req.startDepth) \o Byte(req.depthLimit)
                     \o Byte(IF req.expandLeaves THEN 1 ELSE 0))
          /\ Owe(req)
          /\ UNCHANGED phase
  /\ UNCHANGED <<format, first, written, pending, encPos, hashQueue, decoder>>

---------------------------------------------------------------------------
(* decodeProof                                                             *)

Receive(items) ==
  /\ got' = items
  /\ owed' = SubSeq(owed, Len(items) + 1, Len(owed))

Fail == reading' = "thrown" /\ UNCHANGED <<encoder, wire, read, decPos, owed, got>>

DecodedStrand ==
  LET type  == GetByte(wire)
      depth == GetByte(type.rest)
      size  == GetVarInt(depth.rest)
      name  == GetBytes(size.rest, size.val)
      key   == CASE Types[type.val + 1] = "Leaf" /\ format = "FullKeys" ->
                      [name EXCEPT !.ok = @ /\ size.ok]
                 [] OTHER -> GetKeyHash(depth.rest)
      len   == GetVarInt(key.rest)
      val   == CASE Types[type.val + 1] = "Leaf" -> GetBytes(len.rest, len.val)
                 [] Types[type.val + 1] = "WitnessEmpty" -> GetBytes(key.rest, 0)
                 [] OTHER -> GetBytes(key.rest, KeyBytes)
      full  == Types[type.val + 1] = "Leaf" /\ format = "FullKeys"
  IN  [ok |-> depth.ok /\ key.ok /\ val.ok, rest |-> val.rest,
       val |-> Strand(Types[type.val + 1], depth.val, IF full THEN HashOf(key.val) ELSE key.val,
                      val.val, IF full THEN key.val ELSE NoName)]

ReadStrand ==
  /\ format # "Requests" /\ reading = "strands" /\ wire # <<>>
  /\ \/ Head(wire) >= Len(Types) /\ Fail
     \/ /\ Head(wire) = TypeByte("Invalid")
        /\ reading' = "cmds"
        /\ decPos' = read - 1
        /\ wire' = Tail(wire)
        /\ UNCHANGED <<encoder, read, owed, got>>
     \/ /\ Head(wire) \in 0 .. Len(Types) - 1 /\ Head(wire) # TypeByte("Invalid")
        /\ IF ~DecodedStrand.ok THEN Fail
           ELSE /\ Receive(<<DecodedStrand.val>>)
                /\ wire' = DecodedStrand.rest
                /\ read' = read + 1
                /\ UNCHANGED <<encoder, reading, decPos>>

(* The hashing commands of one byte: those above the lowest bit.           *)
HashCmds(byte, rest) ==
  LET marker == CHOOSE m \in 0 .. 6 : (byte \div 2^m) % 2 = 1 /\ byte % 2^m = 0
      given(i) == (byte \div 2^(marker + i)) % 2
      before(i) == Cardinality({j \in 1 .. i - 1 : given(j) = 1})
  IN  [i \in 1 .. 6 - marker |->
         IF given(i) = 0 THEN [op |-> "HashEmpty", at |-> decPos, hash |-> <<>>]
         ELSE [op |-> "HashProvided", at |-> decPos,
               hash |-> SubSeq(rest, before(i) * KeyBytes + 1, (before(i) + 1) * KeyBytes)]]

ReadCmds ==
  LET byte == Head(wire)
      cmds == IF byte = 0 THEN <<[op |-> "Merge", at |-> decPos, hash |-> <<>>]>>
              ELSE HashCmds(byte, Tail(wire))
      size == 1 + FoldLeft(LAMBDA n, cmd : n + Len(cmd.hash), 0, cmds)
  IN  /\ byte < 128
      /\ IF size > Len(wire) THEN Fail
         ELSE /\ Receive(cmds)
              /\ wire' = SubSeq(wire, size + 1, Len(wire))
              /\ UNCHANGED <<encoder, decoder>>

Landed(byte) ==
  LET distance == byte % 32 IN
  CASE byte \div 32 = 4 -> decPos + distance + 1
    [] byte \div 32 = 5 -> decPos - distance - 1
    [] byte \div 32 = 6 -> decPos + 2^(distance + 6)
    [] OTHER            -> decPos - 2^(distance + 6)

ReadJump ==
  /\ Head(wire) >= 128
  /\ IF Landed(Head(wire)) \notin 0 .. read - 1 THEN Fail
     ELSE /\ decPos' = Landed(Head(wire))
          /\ wire' = Tail(wire)
          /\ UNCHANGED <<encoder, reading, read, owed, got>>

ReadCmd == reading = "cmds" /\ read > 0 /\ wire # <<>> /\ (ReadCmds \/ ReadJump)

(* decodeSyncRequests                                                      *)
ReadRequest ==
  LET path  == GetKeyHash(wire)
      start == GetByte(path.rest)
      limit == GetByte(start.rest)
      flags == GetByte(limit.rest)
  IN  /\ format = "Requests" /\ reading = "strands" /\ wire # <<>>
      /\ IF ~flags.ok \/ ~path.ok THEN Fail
         ELSE /\ Receive(<<[path |-> path.val, startDepth |-> start.val, depthLimit |-> limit.val,
                            expandLeaves |-> flags.val % 2 = 1]>>)
              /\ wire' = flags.rest
              /\ UNCHANGED <<encoder, decoder>>

---------------------------------------------------------------------------
Init ==
  /\ format \in {"HashedKeys", "FullKeys", "Requests"}
  /\ first \in FirstIntegers
  /\ phase = "strands" /\ reading = "strands"
  /\ written = 0 /\ read = 0
  /\ pending = {}
  /\ encPos = 0 /\ decPos = 0
  /\ hashQueue = <<>>
  /\ wire = <<>>
  /\ owed = <<>> /\ got = <<>>

Encode ==
  \/ \E strand \in NextStrands :
       IF format = "FullKeys" /\ strand.type = "Leaf" /\ strand.key = NoName
       THEN RefuseStrand(strand)
       ELSE WriteStrand(strand)
  \/ EndStrands
  \/ \E cmd \in Cmds : TakeCmd(cmd)
  \/ \E cmd \in pending : Jump(cmd) \/ WriteCmd(cmd)
  \/ Close
  \/ \E req \in Requests : WriteRequest(req)

Decode == ReadStrand \/ ReadCmd \/ ReadRequest

Next == Encode \/ Decode

Spec == Init /\ [][Next]_vars

---------------------------------------------------------------------------
(* Properties                                                              *)

(* Every variable has its type, and a byte eight bits.                     *)
TypeOK ==
  /\ \A i \in DOMAIN wire : wire[i] \in 0 .. 255
  /\ {written, read} \subseteq 0 .. Max(StrandCounts)
  /\ encPos \in -1 .. Max(StrandCounts) /\ decPos \in -1 .. Max(StrandCounts)
  /\ pending \subseteq Cmds /\ Cardinality(pending) <= 1
  /\ Len(hashQueue) < 6

(* The decoder gives back what the encoder was given, in its order, whole  *)
(* and unchanged, and nothing else: the jumps lead both of them to the     *)
(* same strand, and the bits and hashes of a byte stay together.           *)
TheChannel == INSTANCE Channel
IsChannel  == TheChannel!Spec

(* Once the string is closed and read to its end, nothing is missing; and  *)
(* it is read to its end: no getter finds it too short, no byte is not     *)
(* known, and no jump leads out of the strands, forwards or below zero.    *)
EverythingArrives ==
  /\ reading # "thrown"
  /\ phase = "closed" /\ wire = <<>> => owed = <<>>

(* The strands of consecutive integers arrive with these integers, up to   *)
(* the last one that has a key, and in the order of their keys.            *)
IntegersInOrder ==
  \A i \in DOMAIN got :
    "keyHash" \in DOMAIN got[i] /\ IsInteger(got[i].keyHash) =>
      /\ ToInteger(got[i].keyHash) = first + read - 1
      /\ read > 1 => Before(FromInteger(first + read - 2), got[i].keyHash)

(* Jumps come to an end: each command gets onto its way, wherever the      *)
(* current strand was.  Both loops run on: the encoder's while it has a    *)
(* command, the decoder's until the string is empty or refused.            *)
Fairness ==
  /\ []<>(pending = {} \/ wire # <<>>)
  /\ []<>(wire = <<>> \/ reading = "thrown")
FairSpec == Spec /\ Fairness
CommandsGetOut == pending # {} ~> pending = {}
=============================================================================
