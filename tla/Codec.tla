------------------------------- MODULE Codec -------------------------------
(***************************************************************************)
(* The frame codec of charles_communicator/utils.go: encodeCharlesMessage  *)
(* and decodeCharlesMessage as operators, and a small machine that takes a *)
(* message through encode, the line and decode, or a text of the STM32     *)
(* through decode.                                                         *)
(*                                                                         *)
(* A text is a sequence of tokens, each a string: the separators, the keys,*)
(* numerals and payload letters.  A token is never cut, and its width is   *)
(* the number of its bytes, so that a text is as wide as the Go string.    *)
(***************************************************************************)
EXTENDS Integers, Sequences, SequencesExt, TLC

CONSTANTS
    BUFFER_SIZE,     \* constants.go: 100
    Numbers,         \* the integers whose numerals occur in texts
    PayloadAlphabet, \* the tokens of the payloads of composed messages
    Commands,        \* the commands of composed messages
    Ids,             \* the ids of composed messages
    MaxPayload,      \* tokens in the payload of a composed message
    WireAlphabet,    \* tokens of the texts the STM32 may send
    MaxTokens,       \* tokens in such a text
    nil,             \* decodeCharlesMessage's nil
    NoMessage, NoText

VARIABLES
    pc,        \* "idle", "composed", "wire", "decoded"
    message,   \* the message being sent, NoMessage when the STM32 sends
    frame,     \* the text on the line, brackets included
    decoded    \* what decodeCharlesMessage returned

vars == <<pc, message, frame, decoded>>

-----------------------------------------------------------------------------
\* The numeric fields and the width of the integer each is stored in
\* (uint8, and uint16 for the id).
fields ==
    [version |-> 2^8, type |-> 2^8, command |-> 2^8, message_id |-> 2^16,
     data_len |-> 2^8]

Numerals    == {ToString(n) : n \in Numbers}
Separators  == {";", ":"}

\* strconv.Atoi of a value that is one numeral.
IsNumeral(value) == Len(value) = 1 /\ value[1] \in Numerals
Atoi(value)      == CHOOSE n \in Numbers : ToString(n) = value[1]

\* strings.Split: the runs between the separators, empty runs included.
RECURSIVE Split(_, _)
Split(text, sep) ==
    LET i == SelectInSeq(text, LAMBDA token : token = sep)
    IN  IF i = 0 THEN <<text>>
        ELSE <<SubSeq(text, 1, i - 1)>> \o Split(SubSeq(text, i + 1, Len(text)), sep)

\* len() of the Go string.
Width(text) == FoldLeft(LAMBDA sum, token : sum + Len(token), 0, text)

\* uint8(len(data) + 1), as the Send functions set dataLen.
DataLen(data) == (Width(data) + 1) % 2^8

-----------------------------------------------------------------------------
\* A part is split at every ':' (line 23).
KeyValue(part) == Split(part, ":")

\* The conversion of Atoi's int to the field's unsigned integer (lines 31-36).
CutKeepsInt(key, n) == n

Cut(key, n) == n % fields[key]

\* decodeCharlesMessage.  Any part that is not key:value, or that gives a
\* numeric field a value that is no number, makes the result nil.  Otherwise
\* a field has the value of the last part that names it, cut to its width,
\* and zero if no part does; a part with any other key is skipped.
decodeCharlesMessage(text) ==
    LET parts == Split(text, ";")
        kv    == [i \in DOMAIN parts |-> KeyValue(parts[i])]
        LastOf(key) == SelectLastInSeq(kv, LAMBDA part : part[1] = <<key>>)
        Field(key)  == IF LastOf(key) = 0 THEN 0 ELSE Cut(key, Atoi(kv[LastOf(key)][2]))
        Data        == IF LastOf("data") = 0 THEN <<>> ELSE kv[LastOf("data")][2]
    IN  IF \E i \in DOMAIN kv :
              \/ Len(kv[i]) # 2
              \/ \E key \in DOMAIN fields : kv[i][1] = <<key>> /\ ~IsNumeral(kv[i][2])
        THEN nil
        ELSE [version |-> Field("version"), messageType |-> Field("type"),
              command |-> Field("command"), messageId |-> Field("message_id"),
              dataLen |-> Field("data_len"), data |-> Data]

SerializedSwapped(m) ==
    <<"[", "version", ":", ToString(m.version), ";",
      "type", ":", ToString(m.command), ";",
      "command", ":", ToString(m.messageType), ";",
      "message_id", ":", ToString(m.messageId), ";",
      "data_len", ":", ToString(m.dataLen), ";", "data", ":">> \o m.data \o <<"]">>

\* The Sprintf of encodeCharlesMessage.
Serialized(m) ==
    <<"[", "version", ":", ToString(m.version), ";",
      "type", ":", ToString(m.messageType), ";",
      "command", ":", ToString(m.command), ";",
      "message_id", ":", ToString(m.messageId), ";",
      "data_len", ":", ToString(m.dataLen), ";", "data", ":">> \o m.data \o <<"]">>

TooLongCountsBody(m) == Width(Serialized(m)) - 2 > BUFFER_SIZE

\* The test of encodeCharlesMessage for "message is too long".
TooLong(m) == Width(Serialized(m)) + 1 > BUFFER_SIZE

\* What the framing of the receiver hands to the decoder: the text between
\* the brackets.
Body(text) == SubSeq(text, 2, Len(text) - 1)

-----------------------------------------------------------------------------
\* The messages the Send functions compose: version 0, a type, a command, an
\* odd id, a payload and its length.
Composed ==
    {[version |-> 0, messageType |-> type, command |-> command, messageId |-> id,
      dataLen |-> DataLen(data), data |-> data] :
        type \in 0..3, command \in Commands, id \in Ids,
        data \in BoundedSeq(PayloadAlphabet, MaxPayload)}

\* The texts the STM32 may send.  Two numerals side by side would read as
\* one number the model has no token for; such texts are left out.
WireTexts ==
    {text \in BoundedSeq(WireAlphabet, MaxTokens) :
        \A i \in 1..(Len(text) - 1) : ~({text[i], text[i + 1]} \subseteq Numerals)}

Init ==
    /\ pc = "idle"
    /\ message = NoMessage
    /\ frame = NoText
    /\ decoded = nil

\* SendGetMessage, SendSetMessage, SendRespMessage, SendErrorMessage build m.
Compose(m) ==
    /\ pc = "idle"
    /\ pc' = "composed"
    /\ message' = m
    /\ frame' = NoText
    /\ decoded' = nil

\* encodeCharlesMessage returns the text, which sendMessageIfExists writes.
Encode ==
    /\ pc = "composed"
    /\ ~TooLong(message)
    /\ pc' = "wire"
    /\ frame' = Serialized(message)
    /\ UNCHANGED <<message, decoded>>

\* encodeCharlesMessage returns the error and the message is dropped.
EncodeTooLong ==
    /\ pc = "composed"
    /\ TooLong(message)
    /\ pc' = "idle"
    /\ message' = NoMessage
    /\ UNCHANGED <<frame, decoded>>

\* The STM32 sends a frame of its own.
Receive(text) ==
    /\ pc = "idle"
    /\ pc' = "wire"
    /\ message' = NoMessage
    /\ frame' = <<"[">> \o text \o <<"]">>
    /\ decoded' = nil

\* processMessage: the text between the brackets is decoded.
Decode ==
    /\ pc = "wire"
    /\ pc' = "decoded"
    /\ decoded' = decodeCharlesMessage(Body(frame))
    /\ UNCHANGED <<message, frame>>

\* The message is dispatched or dropped, and the codec is ready for the next.
Done ==
    /\ pc = "decoded"
    /\ pc' = "idle"
    /\ message' = NoMessage
    /\ frame' = NoText
    /\ decoded' = nil

Next ==
    \/ \E m \in Composed : Compose(m)
    \/ Encode
    \/ EncodeTooLong
    \/ \E text \in WireTexts : Receive(text)
    \/ Decode
    \/ Done

Spec == Init /\ [][Next]_vars

-----------------------------------------------------------------------------
Uint(width) == 0..(width - 1)

\* The type invariant.  A decoded message has every numeric field within the
\* unsigned integer it is stored in, whatever number the text gave
\* (decodeCharlesMessage, the conversions on lines 33 and 35).
TypeOK ==
    /\ pc \in {"idle", "composed", "wire", "decoded"}
    /\ message \in Composed \cup {NoMessage}
    /\ frame = NoText \/ frame \in Seq(STRING)
    /\ \/ decoded = nil
       \/ /\ decoded.version \in Uint(fields.version)
          /\ decoded.messageType \in Uint(fields.type)
          /\ decoded.command \in Uint(fields.command)
          /\ decoded.messageId \in Uint(fields.message_id)
          /\ decoded.dataLen \in Uint(fields.data_len)
          /\ decoded.data \in Seq(STRING)

SeparatorFree(data) == \A i \in DOMAIN data : data[i] \notin Separators

\* A message that encodeCharlesMessage accepts and whose payload holds no
\* separator is decoded by decodeCharlesMessage to the same message: the
\* Sprintf and the two Splits agree on keys, order and payload.  The wire
\* format has no escaping, and of a payload with a ';' or a ':' in it the
\* code promises nothing: the frame is rejected or the payload arrives cut.
RoundTrip ==
    pc = "decoded" /\ message # NoMessage /\ SeparatorFree(message.data)
        => decoded = message

\* A frame that encodeCharlesMessage accepts fits the receive buffer of a
\* peer with the same BUFFER_SIZE, whose framing gives up on a body of more
\* than BUFFER_SIZE - 1 bytes (Start, line 94): the sender's bound is not
\* weaker than the receiver's.
EncodedFitsReceiver ==
    pc = "wire" /\ message # NoMessage => Width(Body(frame)) <= BUFFER_SIZE - 1

=============================================================================
