---------------------------- MODULE PacketReader ----------------------------
(***************************************************************************)
(* decodeRpcPacket of msgpackrpc/connection.go and the loop of Run around   *)
(* it: how a stream of MessagePack values is cut into RPC messages.         *)
(*                                                                          *)
(* The stream is a sequence of tokens, each the code of one value: an array *)
(* header announces the n values that follow it, every other token is a     *)
(* whole value.  An integer carries its value, of which only the order to   *)
(* 0, 1, 2 and MaxInt matters; "odd" is a value that Decoder.Skip can pass  *)
(* and Decoder.DecodeInterface cannot return (an unknown extension); "bad"  *)
(* is a byte that starts no value; "cut" is an array header whose length    *)
(* bytes are missing because the stream ends inside it.                     *)
(***************************************************************************)
EXTENDS Integers, Sequences, FiniteSets

CONSTANTS
    Lens,      \* the lengths of arrays
    MaxInt,    \* math.MaxInt64
    MaxTokens  \* the length of a message (bound)

ASSUME ReaderAssumption ==
    Lens \subseteq Nat /\ MaxInt \in Nat \ {0, 1} /\ MaxTokens \in Nat

messageTypeRequest      == 0
messageTypeResponse     == 1
messageTypeNotification == 2

Token ==
    [code : {"array"}, n : Lens] \cup [code : {"int"}, n : -1 .. 2]
    \cup [code : {"uint"}, n : {MaxInt + 1}]
    \cup [code : {"string", "nil", "odd", "bad"}, n : {0}]

Cut == [code |-> "cut", n |-> 0]

VARIABLES
    stream,   \* the tokens that arrived and are not consumed
    ended,    \* no more will arrive
    running,  \* Run has not returned
    asRaw     \* paramsAndResponsesAsRaw

vars == <<stream, ended, running, asRaw>>

TypeOK ==
    /\ stream \in Seq(Token \cup {Cut})
    /\ ended \in BOOLEAN
    /\ running \in BOOLEAN
    /\ asRaw \in BOOLEAN

-----------------------------------------------------------------------------
(***************************************************************************)
(* The MessagePack decoder.  Reading yields the index of the next token, or *)
(* says that more tokens are needed, or fails.                              *)
(***************************************************************************)
NeedMore == 0
Fails    == -1

ReadValues(s, i, n, refused) ==
    LET read[j \in -1 .. Len(s) + 1] ==
            [m \in Nat |->
                IF m = 0 \/ j \in {NeedMore, Fails} THEN j
                ELSE IF j > Len(s) THEN NeedMore
                ELSE IF s[j].code \in refused THEN Fails
                ELSE IF s[j].code = "array" THEN read[read[j + 1][s[j].n]][m - 1]
                ELSE read[j + 1][m - 1]]
    IN  read[i][n]

Skip(s, i, n)            == ReadValues(s, i, n, {"bad", "cut"})
DecodeInterface(s, i, n) == ReadValues(s, i, n, {"bad", "cut", "odd"})

(* PeekCode and DecodeArrayLen, which is 0 when it fails.                    *)
IsArray(t)  == t.code \in {"array", "cut"}
ArrayLen(t) == t.n

(* ToInt and ToUint: the answer is a set, empty when the value is refused.   *)
ToInt(t) ==
    IF t.code = "int" \/ (t.code = "uint" /\ t.n <= MaxInt) THEN {t.n} ELSE {}

(* Mutant: a negative number is taken for an ID.                             *)
ToUintSigned(t) == IF t.code \in {"int", "uint"} THEN {t.n} ELSE {}

ToUint(t) ==
    IF t.code = "uint" \/ (t.code = "int" /\ t.n >= 0) THEN {t.n} ELSE {}

-----------------------------------------------------------------------------
(***************************************************************************)
(* decodeRpcPacket.  used is how many tokens it has consumed.               *)
(***************************************************************************)
Outcome(kind, used) == [kind |-> kind, used |-> used, type |-> -1, id |-> 0, data |-> <<>>]

Packet(s, used, type, id, from) ==
    [kind |-> "packet", used |-> used, type |-> type, id |-> id,
     data |-> SubSeq(s, from, used)]

After(i, next(_)) ==
    IF i = NeedMore THEN Outcome("more", 0)
    ELSE IF i = Fails THEN Outcome("fatal", 0)
    ELSE next(i)

skipAndError(s, i, n) ==
    After(Skip(s, i, n), LAMBDA j : Outcome("invalid", j - 1))

readData(s, i, n, type, id) ==
    After(IF asRaw THEN Skip(s, i, n) ELSE DecodeInterface(s, i, n),
          LAMBDA j : Packet(s, j - 1, type, id, i))

readParams(s, i, type, id) ==
    IF i > Len(s) THEN Outcome("more", 0)
    ELSE IF ~IsArray(s[i]) THEN skipAndError(s, i, 1)
    ELSE readData(s, i + 1, ArrayLen(s[i]), type, id)

(* Mutant: the method name has been counted as one of those to skip.         *)
readMethodSkipsTwo(s, i, type, id) ==
    After(DecodeInterface(s, i, 1), LAMBDA j :
        IF s[i].code # "string" THEN skipAndError(s, j, 2)
                                ELSE readParams(s, j, type, id))

readMethod(s, i, type, id) ==
    After(DecodeInterface(s, i, 1), LAMBDA j :
        IF s[i].code # "string" THEN skipAndError(s, j, 1)
                                ELSE readParams(s, j, type, id))

readId(s, i, type) ==
    After(DecodeInterface(s, i, 1), LAMBDA j :
        IF ToUint(s[i]) = {} THEN skipAndError(s, j, 2)
        ELSE LET id == CHOOSE x \in ToUint(s[i]) : TRUE
             IN  IF type = messageTypeRequest THEN readMethod(s, j, type, id)
                                              ELSE readData(s, j, 2, type, id))

readType(s, l) ==
    After(DecodeInterface(s, 2, 1), LAMBDA j :
        IF ToInt(s[2]) \cap {messageTypeRequest, messageTypeResponse} # {} /\ l = 4
          THEN readId(s, j, s[2].n)
        ELSE IF ToInt(s[2]) = {messageTypeNotification} /\ l = 3
          THEN readMethod(s, j, messageTypeNotification, 0)
        ELSE skipAndError(s, j, l - 1))

decodeRpcPacket(s) ==
    IF s = <<>> THEN Outcome("more", 0)
    ELSE IF ~IsArray(s[1]) THEN skipAndError(s, 1, 1)
    ELSE IF ArrayLen(s[1]) \notin {3, 4} THEN skipAndError(s, 2, ArrayLen(s[1]))
    ELSE readType(s, ArrayLen(s[1]))

-----------------------------------------------------------------------------
Init ==
    /\ stream = <<>>
    /\ ended = FALSE
    /\ running = TRUE
    /\ asRaw \in BOOLEAN

(* Tokens arrive while the decoder waits for them; the stream may end        *)
(* between two tokens or inside one.                                         *)
Waiting == running /\ ~ended /\ decodeRpcPacket(stream).kind = "more"

Arrive(t) ==
    /\ Waiting
    /\ Len(stream) < MaxTokens
    /\ stream' = Append(stream, t)
    /\ UNCHANGED <<ended, running, asRaw>>

Hangup ==
    /\ Waiting
    /\ \/ UNCHANGED stream
       \/ Len(stream) < MaxTokens /\ stream' = Append(stream, Cut)
    /\ ended' = TRUE
    /\ UNCHANGED <<running, asRaw>>

(* One turn of the loop of Run: an invalid packet is passed over, any other  *)
(* error ends it.                                                            *)
Run ==
    LET p == decodeRpcPacket(stream)
    IN  /\ running
        /\ p.kind # "more" \/ ended
        /\ IF p.kind \in {"packet", "invalid"}
             THEN /\ stream' = SubSeq(stream, p.used + 1, Len(stream))
                  /\ UNCHANGED running
             ELSE running' = FALSE /\ UNCHANGED stream
        /\ UNCHANGED <<ended, asRaw>>

Next == (\E t \in Token : Arrive(t)) \/ Hangup \/ Run

Spec == Init /\ [][Next]_vars

-----------------------------------------------------------------------------
(***************************************************************************)
(* The reference: what a message is, without reading it from left to right. *)
(* A sequence of tokens owes one value, plus what its headers announce,     *)
(* less what is there; it is one value when nothing is owed at its end and  *)
(* something is at every earlier point.                                     *)
(***************************************************************************)
Announced(s) ==
    UNION {{i} \X (1 .. s[i].n) : i \in {k \in DOMAIN s : s[k].code = "array"}}

Owed(s) == 1 + Cardinality(Announced(s)) - Len(s)
OneValue(s) ==
    Owed(s) = 0 /\ \A k \in 0 .. Len(s) - 1 : Owed(SubSeq(s, 1, k)) > 0

Has(s, codes) == \E i \in DOMAIN s : s[i].code \in codes
Number(t, type) == t.code \in {"int", "uint"} /\ t.n = type

(* The place of the method name.                                             *)
MethodAt(s) == IF s[1].n = 4 THEN 4 ELSE 3

IsCall(s) ==
    /\ Number(s[2], IF s[1].n = 4 THEN messageTypeRequest ELSE messageTypeNotification)
    /\ s[MethodAt(s)].code = "string"
    /\ s[1].n = 4 => s[3].code \in {"int", "uint"} /\ s[3].n >= 0
    /\ s[MethodAt(s) + 1].code = "array"

IsResponse(s) ==
    /\ s[1].n = 4
    /\ Number(s[2], messageTypeResponse)
    /\ s[3].code \in {"int", "uint"} /\ s[3].n >= 0

IsRpc(s) == s[1].code = "array" /\ s[1].n \in {3, 4} /\ (IsCall(s) \/ IsResponse(s))

Whole == ~Has(stream, {"bad", "cut", "odd"}) /\ OneValue(stream)

-----------------------------------------------------------------------------
(* The reader stays in step with the stream: what it consumes for a packet,  *)
(* good or invalid, is one value, so that the next packet is looked for      *)
(* where it begins, and it never waits once the value is there               *)
(* (connection.go:166-173 with each of the counts given to it).              *)
InStep ==
    LET p == decodeRpcPacket(stream)
    IN  ~Has(stream, {"cut"}) =>
            /\ p.kind \in {"packet", "invalid"} => OneValue(SubSeq(stream, 1, p.used))
            /\ p.kind = "more" => ~OneValue(stream)

(* A value that can be read is taken for a message exactly when it has the   *)
(* form of one, with the ID and the parameters it carries, and is passed     *)
(* over otherwise: a peer that sends something else keeps its connection     *)
(* (connection.go:175-290, 297-306).                                         *)
MessagesRecognised ==
    LET p == decodeRpcPacket(stream)
    IN  Whole => /\ p.kind = (IF IsRpc(stream) THEN "packet" ELSE "invalid")
                 /\ p.kind = "packet" =>
                        /\ p.type = stream[2].n
                        /\ stream[1].n = 4 => p.id = stream[3].n
                        /\ p.data = SubSeq(stream, IF IsResponse(stream) THEN 4
                                                   ELSE MethodAt(stream) + 2, Len(stream))

=============================================================================
