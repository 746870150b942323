--------------------------------- MODULE Cli ---------------------------------
(***************************************************************************)
(* The command line client, cmd/arduino-router-cli/main.go: composeArgs     *)
(* turns the words after the method name into the parameters of the call,   *)
(* the call is made, and its outcome becomes the exit status.               *)
(*                                                                          *)
(* A word is one of the brackets, a number, a plain or prefixed string, nil *)
(* (which stands for the booleans and the good floating point numbers too)  *)
(* or a floating point number that does not parse.                          *)
(***************************************************************************)
EXTENDS Naturals, Sequences

CONSTANT MaxWords  \* the length of the command line (bound)

ASSUME WordsAssumption == MaxWords \in Nat

Word == {"[", "]", "{", "}", "42", "str:42", "nil", "f32:x"}

VARIABLES
    words,         \* the arguments after the method name
    notification,  \* the flag -n
    phase,         \* where main is
    status,        \* the exit status
    answer         \* history: what came back from the server

vars == <<words, notification, phase, status, answer>>

TypeOK ==
    /\ words \in Seq(Word)
    /\ notification \in BOOLEAN
    /\ phase \in {"typing", "dial", "send", "waiting", "exited"}
    /\ status \in {"none", "0", "1", "200", "panic"}
    /\ answer \in {"none", "written", "result", "error"}

-----------------------------------------------------------------------------
(***************************************************************************)
(* composeArgs.  A value has a tag, and a name when it is a scalar, its     *)
(* elements when it is an array, or its entries, pairs of a key and a       *)
(* value, when it is a map.                                                 *)
(***************************************************************************)
Value(tag, name, elems, entries) ==
    [tag |-> tag, name |-> name, elems |-> elems, entries |-> entries]

Scalar(tag, name) == Value(tag, name, <<>>, {})
Array(elems)      == Value("array", "", elems, {})
Map(entries)      == Value("map", "", <<>>, entries)

(* The result of composeArgs; rest is the first word that it leaves.         *)
Composed(value, rest) == [kind |-> "ok", value |-> value, rest |-> rest]
Refused(kind)         == [kind |-> kind, value |-> Scalar("nil", ""), rest |-> 0]

composeScalar(word) ==
    CASE word = "nil"    -> Scalar("nil", "")
      [] word = "42"     -> Scalar("int", "42")
      [] word = "str:42" -> Scalar("string", "42")
      [] OTHER           -> Scalar("string", word)

(* The entries m after the assignments m[key] = value of the entries later.  *)
Assign(m, later) == later \cup {e \in m : \A l \in later : l[1] # e[1]}

(* An array or a map cannot be the key of a Go map.                          *)
Hashable(value) == value.tag \notin {"array", "map"}

(* The value that begins at the word i, and what is left of an array or a    *)
(* map in front of it.  compose knows them for later words.                  *)
composeValue(compose, args, i) ==
    IF i > Len(args) \/ args[i] = "f32:x" THEN Refused("error")
    ELSE IF args[i] = "[" THEN compose[i + 1]["array"]
    ELSE IF args[i] = "{" THEN compose[i + 1]["map"]
    ELSE Composed(composeScalar(args[i]), i + 1)

composeArray(compose, args, i) ==
    IF i > Len(args) THEN Refused("error")
    ELSE IF args[i] = "]" THEN Composed(Array(<<>>), i + 1)
    ELSE LET elem == compose[i]["value"]
             more == compose[elem.rest]["array"]
         IN  IF elem.kind # "ok" THEN elem
             ELSE IF more.kind # "ok" THEN more
             ELSE Composed(Array(<<elem.value>> \o more.value.elems), more.rest)

(* Mutant: the end of the map is looked for before the value too, and the    *)
(* key without a value is dropped.                                           *)
composeMapDropsKey(compose, args, i) ==
    IF i > Len(args) THEN Refused("error")
    ELSE IF args[i] = "}" THEN Composed(Map({}), i + 1)
    ELSE LET key   == compose[i]["value"]
             value == compose[key.rest]["value"]
             more  == compose[value.rest]["map"]
         IN  IF key.kind # "ok" \/ key.rest > Len(args) THEN Refused("error")
             ELSE IF args[key.rest] = "}" THEN Composed(Map({}), key.rest + 1)
             ELSE IF value.kind # "ok" THEN value
             ELSE IF ~Hashable(key.value) THEN Refused("panic")
             ELSE IF more.kind # "ok" THEN more
             ELSE Composed(Map(Assign({<<key.value, value.value>>}, more.value.entries)),
                           more.rest)

composeMap(compose, args, i) ==
    IF i > Len(args) THEN Refused("error")
    ELSE IF args[i] = "}" THEN Composed(Map({}), i + 1)
    ELSE LET key   == compose[i]["value"]
             value == compose[key.rest]["value"]
             more  == compose[value.rest]["map"]
         IN  IF key.kind # "ok" THEN key
             ELSE IF value.kind # "ok" THEN value
             ELSE IF ~Hashable(key.value) THEN Refused("panic")
             ELSE IF more.kind # "ok" THEN more
             ELSE Composed(Map(Assign({<<key.value, value.value>>}, more.value.entries)),
                           more.rest)

composeArgs(args) ==
    LET compose[i \in 1 .. Len(args) + 1] ==
            [part \in {"value", "array", "map"} |->
                IF part = "value" THEN composeValue(compose, args, i)
                ELSE IF part = "array" THEN composeArray(compose, args, i)
                ELSE composeMap(compose, args, i)]
    IN  compose[1]["value"]

(* The parameters, between brackets of their own.                            *)
Bracketed(ws) == <<"[">> \o ws \o <<"]">>

Params(ws) ==
    LET p == composeArgs(Bracketed(ws))
    IN  IF p.kind = "ok" /\ p.rest <= Len(Bracketed(ws)) THEN Refused("error") ELSE p

-----------------------------------------------------------------------------
Init ==
    /\ words = <<>>
    /\ notification \in BOOLEAN
    /\ phase = "typing"
    /\ status = "none"
    /\ answer = "none"

Type(w) ==
    /\ phase = "typing"
    /\ Len(words) < MaxWords
    /\ words' = Append(words, w)
    /\ UNCHANGED <<notification, phase, status, answer>>

Exit(s) == phase' = "exited" /\ status' = s

(* cobra refuses the command line: there is no method, or a word that begins *)
(* with a dash is no flag.  Such words come through only after "--", and     *)
(* then they are numbers and strings like others.                            *)
BadUsage ==
    /\ phase = "typing"
    /\ Exit("200")
    /\ UNCHANGED <<words, notification, answer>>

Compose ==
    /\ phase = "typing"
    /\ CASE Params(words).kind = "ok"    -> phase' = "dial" /\ UNCHANGED status
         [] Params(words).kind = "error" -> Exit("1")
         [] OTHER                        -> Exit("panic")
    /\ UNCHANGED <<words, notification, answer>>

Dial ==
    /\ phase = "dial"
    /\ (phase' = "send" /\ UNCHANGED status) \/ Exit("1")
    /\ UNCHANGED <<words, notification, answer>>

(* SendNotification, or the first half of SendRequest.                       *)
Send ==
    /\ phase = "send"
    /\ \/ Exit("1") /\ UNCHANGED answer
       \/ /\ answer' = "written"
          /\ IF notification THEN Exit("0") ELSE phase' = "waiting" /\ UNCHANGED status
    /\ UNCHANGED <<words, notification>>

(* Mutant: an error in the answer is printed, and the client ends as usual.  *)
ReceiveEndsAsUsual ==
    /\ phase = "waiting"
    /\ answer' \in {"result", "error"}
    /\ Exit("0")
    /\ UNCHANGED <<words, notification>>

(* Nothing ends the wait but an answer: the context has no limit, and the    *)
(* end of the connection does not reach SendRequest.                         *)
Receive ==
    /\ phase = "waiting"
    /\ \/ answer' = "result" /\ Exit("0")
       \/ answer' = "error" /\ Exit("1")
    /\ UNCHANGED <<words, notification>>

Next == (\E w \in Word : Type(w)) \/ BadUsage \/ Compose \/ Dial \/ Send \/ Receive

Spec == Init /\ [][Next]_vars

-----------------------------------------------------------------------------
(***************************************************************************)
(* The reference: a reader with a stack of the groups that are open, which  *)
(* looks at each word once.  A bracket that does not close the innermost    *)
(* group, or leaves a key without its value, is a string like any other.    *)
(***************************************************************************)
Reading(kind, stack) == [kind |-> kind, stack |-> stack]

(* Add a value to the innermost group.  The key that waits for its value is  *)
(* kept as the only element of an open map.                                  *)
Add(stack, value) ==
    LET top == Head(stack)
        put(group) == Reading("open", <<group>> \o Tail(stack))
    IN  IF top.tag = "array" THEN put(Array(Append(top.elems, value)))
        ELSE IF top.elems = <<>> THEN put(Value("map", "", <<value>>, top.entries))
        ELSE IF ~Hashable(top.elems[1]) THEN Reading("panic", <<>>)
        ELSE put(Map(Assign(top.entries, {<<top.elems[1], value>>})))

Closes(w, top) ==
    \/ w = "]" /\ top.tag = "array"
    \/ w = "}" /\ top.tag = "map" /\ top.elems = <<>>

Look(r, w) ==
    IF r.kind = "closed" THEN Reading("error", <<>>)
    ELSE IF r.kind # "open" THEN r
    ELSE IF w = "f32:x" THEN Reading("error", <<>>)
    ELSE IF w = "[" THEN Reading("open", <<Array(<<>>)>> \o r.stack)
    ELSE IF w = "{" THEN Reading("open", <<Map({})>> \o r.stack)
    ELSE IF ~Closes(w, Head(r.stack)) THEN Add(r.stack, composeScalar(w))
    ELSE IF Len(r.stack) = 1 THEN Reading("closed", r.stack)
    ELSE Add(Tail(r.stack), Head(r.stack))

ReadWords(ws) ==
    LET read[k \in 1 .. Len(Bracketed(ws))] ==
            IF k = 1 THEN Reading("open", <<Array(<<>>)>>)
                     ELSE Look(read[k - 1], Bracketed(ws)[k])
    IN  read[Len(Bracketed(ws))]

-----------------------------------------------------------------------------
(* The parameters are those the words stand for: composeArgs accepts a       *)
(* command line exactly when the stack reader does, with the same nesting,   *)
(* order and map entries (main.go:115-196).                                  *)
WordsUnderstood ==
    LET p == Params(words)
        r == ReadWords(words)
    IN  /\ (p.kind = "ok") <=> (r.kind = "closed")
        /\ (p.kind = "panic") <=> (r.kind = "panic")
        /\ p.kind = "ok" => p.value = Head(r.stack)

(* The exit status tells a script what happened: 0 means that the words were *)
(* understood and the call was answered with a result, or the notification   *)
(* was written (main.go:44-46, 50-95).                                       *)
StatusTells ==
    status = "0" => /\ ReadWords(words).kind = "closed"
                    /\ answer = IF notification THEN "written" ELSE "result"

=============================================================================
