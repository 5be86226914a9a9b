--------------------------- MODULE ScriptEncoding ---------------------------
(***************************************************************************)
(* Byte strings, script numbers and scripts: data.ts and script.ts of the  *)
(* package utils, RadiantHelpers.ts of the SDK.  A byte string is a        *)
(* sequence of 0 .. 255, a number a sign and the bytes of its magnitude    *)
(* (least significant first, the last one not zero), a script a sequence   *)
(* of [op |-> n] and [data |-> bytes].                                     *)
(***************************************************************************)
EXTENDS Integers, Sequences, SequencesExt, FiniteSetsExt

OP_0              == 0
OP_PUSHDATA1      == 76
OP_PUSHDATA2      == 77
OP_PUSHDATA4      == 78
OP_1NEGATE        == 79
OP_1              == 81
OP_16             == 96
OP_NOP            == 97
OP_STATESEPARATOR == 189

Filled(size, byte) == [i \in 1 .. size |-> byte]
placeholder(size)  == Filled(size, 0)
Drop(bytes, n)     == SubSeq(bytes, n + 1, Len(bytes))

\* Two bytes, least significant first.
Uint16(n) == <<n % 256, n \div 256>>

-----------------------------------------------------------------------------
(* Numbers. *)
Zero == [negative |-> FALSE, bytes |-> <<>>]

\* The number n, for n < 2^24.
Natural(n) ==
    LET size == CHOOSE k \in 0 .. 3 : n < 256 ^ k /\ (k > 0 => n >= 256 ^ (k - 1))
    IN  [negative |-> FALSE, bytes |-> [i \in 1 .. size |-> (n \div 256 ^ (i - 1)) % 256]]

IntOf(number) == FoldRight(LAMBDA byte, n : 256 * n + byte, number.bytes, 0)

\* The sign goes into the highest bit of the last byte, or into a byte of its own
\* when that bit is taken.
Signed(bytes, negative) ==
    IF bytes = <<>> THEN <<>>
    ELSE IF Last(bytes) >= 128 THEN Append(bytes, IF negative THEN 128 ELSE 0)
    ELSE [bytes EXCEPT ![Len(bytes)] = @ + (IF negative THEN 128 ELSE 0)]

encodeInt(number) == Signed(number.bytes, number.negative)
encodeBool(bool)  == encodeInt(IF bool THEN Natural(1) ELSE Zero)

\* >>= works on 32 bits with a sign: after the first byte it leaves what is below
\* 2^32, or a negative number, which ends the loop, when bit 31 is set.
encodeScriptInt(number) ==
    LET low    == SubSeq(number.bytes, 1, Min({4, Len(number.bytes)}))
        kept   == Max({1} \cup {i \in DOMAIN low : low[i] # 0})
        pushed == IF Len(low) = 4 /\ low[4] >= 128 THEN 1 ELSE kept
    IN  IF low = <<>> THEN <<>> ELSE Signed(SubSeq(low, 1, pushed), number.negative)

\* What a node, or parseBytesAsScriptNumber, reads: only a number in its shortest form.
IsMinimal(bytes) ==
    bytes # <<>> => \/ Last(bytes) % 128 # 0
                    \/ Len(bytes) > 1 /\ bytes[Len(bytes) - 1] >= 128

Number(bytes) ==
    LET negative  == bytes # <<>> /\ Last(bytes) >= 128
        unsigned  == IF negative THEN [bytes EXCEPT ![Len(bytes)] = @ - 128] ELSE bytes
        magnitude == IF unsigned # <<>> /\ Last(unsigned) = 0 THEN Front(unsigned) ELSE unsigned
    IN  [negative |-> negative, bytes |-> magnitude]

-----------------------------------------------------------------------------
(* Pushes. *)

\* encodeDataPush of libauth: the shortest push.
encodeDataPush(data) ==
    LET size == Len(data)
    IN  IF size = 0 THEN <<OP_0>>
        ELSE IF size = 1 /\ data[1] \in 1 .. 16 THEN <<OP_1 - 1 + data[1]>>
        ELSE IF data = <<129>> THEN <<OP_1NEGATE>>
        ELSE IF size < OP_PUSHDATA1 THEN <<size>> \o data
        ELSE IF size < 256 THEN <<OP_PUSHDATA1, size>> \o data
        ELSE <<OP_PUSHDATA2>> \o Uint16(size) \o data

\* Mutant: the boundary of one-byte lengths is off by one.
MutEncodePush(data) ==
    LET size == Len(data)
    IN  IF size = 0 THEN <<OP_PUSHDATA1, 0>>
        ELSE IF size <= OP_PUSHDATA1 THEN <<size>> \o data
        ELSE IF size < 256 THEN <<OP_PUSHDATA1, size>> \o data
        ELSE <<OP_PUSHDATA2>> \o Uint16(size) \o data

encodePush(data) ==
    LET size == Len(data)
    IN  IF size = 0 THEN <<OP_PUSHDATA1, 0>>
        ELSE IF size < OP_PUSHDATA1 THEN <<size>> \o data
        ELSE IF size < 256 THEN <<OP_PUSHDATA1, size>> \o data
        ELSE <<OP_PUSHDATA2>> \o Uint16(size) \o data

\* The pushes of null data scripts, which end at 255 bytes.
PushdataTooLarge(data)  == Len(data) >= 256
getPushDataOpcode(data) == SubSeq(encodePush(data), 1, Len(encodePush(data)) - Len(data))

-----------------------------------------------------------------------------
(* Scripts. *)
Op(n)         == [op |-> n]
Data(bytes)   == [data |-> bytes]
IsData(elem)  == "data" \in DOMAIN elem
IsOp(elem, n) == ~IsData(elem) /\ elem.op = n

scriptToBytecode(script) ==
    FlattenSeq([i \in DOMAIN script |->
      IF IsData(script[i]) THEN encodeDataPush(script[i].data) ELSE <<script[i].op>>])

calculateBytesize(script) == Len(scriptToBytecode(script))

encodeNullDataScript(chunks) ==
    FlattenSeq([i \in DOMAIN chunks |->
      IF IsData(chunks[i]) THEN getPushDataOpcode(chunks[i].data) \o chunks[i].data
      ELSE <<chunks[i].op>>])

\* The bytes before the payload of the instruction at i and the size of the payload.
\* A length of four bytes above 65535 exceeds every script here.
Ahead(bytes, i) ==
    LET byte == bytes[i]
        At(j) == IF j <= Len(bytes) THEN bytes[j] ELSE 0
    IN  IF byte \in 1 .. 75 THEN [header |-> 1, payload |-> byte]
        ELSE IF byte = OP_PUSHDATA1 THEN [header |-> 2, payload |-> At(i + 1)]
        ELSE IF byte = OP_PUSHDATA2
          THEN [header |-> 3, payload |-> At(i + 1) + 256 * At(i + 2)]
        ELSE IF byte = OP_PUSHDATA4
          THEN [header |-> 5, payload |->
                  IF At(i + 3) + At(i + 4) > 0 THEN 65536 ELSE At(i + 1) + 256 * At(i + 2)]
        ELSE [header |-> 1, payload |-> 0]

RunsOut(bytes, i) ==
    LET ahead == Ahead(bytes, i) IN i + ahead.header + ahead.payload > Len(bytes) + 1

NoSplit == [stateData |-> <<>>, codeScript |-> <<>>, found |-> FALSE]

\* null is NoSplit.
splitStatefulBytecode(bytes) ==
    LET scan[i \in 1 .. Len(bytes) + 2] ==
          IF i > Len(bytes) THEN NoSplit
          ELSE IF bytes[i] = OP_STATESEPARATOR
            THEN [stateData |-> SubSeq(bytes, 1, i - 1), codeScript |-> Drop(bytes, i),
                  found |-> TRUE]
          ELSE IF RunsOut(bytes, i) THEN NoSplit
          ELSE scan[i + Ahead(bytes, i).header + Ahead(bytes, i).payload]
    IN  scan[1]

buildStatefulOutput(stateData, codeScript) ==
    encodePush(stateData) \o <<OP_STATESEPARATOR>> \o codeScript

-----------------------------------------------------------------------------
(* The cut of the bytecode out of a preimage, in scripts with an OP_NOP. *)

NumberAt(elem) ==
    IF IsData(elem) THEN IntOf(Number(elem.data)) ELSE IF elem.op = OP_0 THEN 0 ELSE elem.op - 80

IsNumberAt(elem) ==
    IsData(elem) \/ elem.op = OP_0 \/ elem.op \in OP_1 .. OP_16

Nops(script) == {i \in DOMAIN script : IsOp(script[i], OP_NOP)}

\* Mutant: the size is taken before the cut is adjusted.
MutWithCut(script, index, oldCut) ==
    [script EXCEPT ![index] = Data(encodeInt(Natural(oldCut +
       IF calculateBytesize(script) > 252 THEN 3 ELSE 1)))]

WithCut(script, index, oldCut) ==
    LET short == [script EXCEPT ![index] = Data(encodeInt(Natural(oldCut + 1)))]
    IN  IF calculateBytesize(short) > 252
        THEN [short EXCEPT ![index] = Data(encodeInt(Natural(oldCut + 3)))]
        ELSE short

replaceBytecodeNop(script) ==
    LET index  == Min(Nops(script))
        rest   == RemoveAt(script, index)
    IN  IF Nops(script) = {} THEN script
        ELSE IF index > Len(rest) THEN script
        ELSE IF ~IsNumberAt(rest[index]) THEN script
        ELSE WithCut(rest, index, NumberAt(rest[index]))

generateRedeemScript(baseScript, encodedArgs) == replaceBytecodeNop(encodedArgs \o baseScript)

-----------------------------------------------------------------------------
(* External: what a node reads. *)

\* The instructions of a script: where each begins, and what it pushes.
Instructions(bytes) ==
    LET from[i \in 1 .. Len(bytes) + 1] ==
          IF i > Len(bytes) THEN <<>>
          ELSE LET ahead == Ahead(bytes, i)
                   next  == i + ahead.header + ahead.payload
               IN  IF next > Len(bytes) + 1 THEN <<[at |-> i, op |-> -1, data |-> <<>>]>>
                   ELSE <<[at |-> i, op |-> bytes[i],
                           data |-> SubSeq(bytes, i + ahead.header, next - 1)]>> \o from[next]
    IN  from[1]

Pushed(instruction) ==
    IF instruction.op \in OP_1 .. OP_16 THEN <<instruction.op - 80>>
    ELSE IF instruction.op = OP_1NEGATE THEN <<129>>
    ELSE instruction.data

IsPush(instruction) == instruction.op \in 0 .. OP_16
=============================================================================
