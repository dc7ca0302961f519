---------------------------- MODULE SendNotification ----------------------------
(***************************************************************************)
(* The rcon command SendNotification (Plugin/commands.cpp): a line         *)
(*     SendNotification r,g,b,a|size|duration|Message                      *)
(* is split into fields, checked field by field and shown to all players,  *)
(* or answered with what is wrong.  The split drops empty fields, so what  *)
(* follows an empty one moves up by one place.                             *)
(*                                                                         *)
(* A text is a member of Texts, Blank the empty one.  RconSpec is named    *)
(* apart from Spec of Registration, where the command is registered, so    *)
(* that one module can extend both.                                        *)
(***************************************************************************)
EXTENDS Naturals, Sequences, FiniteSets

CONSTANTS
    Texts,    \* the texts between the bars and commas
    Blank,    \* the empty text
    Number,   \* what std::stof reads of each text: it may read its beginning
    None,     \* ... or nothing, which is an exception
    MaxColors,  \* bound: the numbers in the first field of a packet
    MaxFields   \* bound: the fields after the first

ASSUME SendNotificationAssumption ==
    /\ Blank \in Texts /\ {MaxColors, MaxFields} \subseteq Nat
    /\ Number[Blank] = None

VARIABLES
    packet,   \* the last packet: the texts between the commas of its first
              \* field, and the fields after the first
    answer    \* what came of it: a reply to its sender, or a notification

rconVars == <<packet, answer>>

Lists(n) == UNION {[1..k -> Texts] : k \in 0..n}
Packets  == [colors : Lists(MaxColors), fields : Lists(MaxFields)]

\* The reply and the notification, in the shape of one record.
Reply(about) == [kind |-> "reply", about |-> about]
Shown(color, scale, time, message) ==
    [kind |-> "shown", color |-> color, scale |-> scale, time |-> time,
     message |-> message]

\* Variant of ParseIntoArray: not told to.
ParseIntoArray_Keeping(parts) == parts

\* ParseIntoArray, told to cull empty parts: the others stay in their order, the
\* n-th of them is the one with n of them up to its own place.  The first field
\* has the command's name before it when the line is split, and is never empty.
Places(parts, i) == {j \in 1..i : parts[j] # Blank}
Rank(parts, i)   == Cardinality(Places(parts, i))
Nth(parts, n)    ==
    CHOOSE i \in Places(parts, Len(parts)) : Rank(parts, i) = n
ParseIntoArray(parts) ==
    [n \in 1..Rank(parts, Len(parts)) |-> parts[Nth(parts, n)]]

\* Variant of Fails: only the empty text is refused.
Fails_OnlyBlank(t) == t = Blank

\* std::stof throws.
Fails(t) == Number[t] = None

\* The color: white, unless three numbers are given; alpha is 255 whatever is.
White == <<"255", "255", "255", "255">>
Color(colors) ==
    IF Len(colors) >= 3
      THEN <<Number[colors[1]], Number[colors[2]], Number[colors[3]], "255">>
      ELSE White

\* The handler; the first thing that is wrong is the one that is answered.
Outcome(p) ==
    LET colors == ParseIntoArray(p.colors)
        parsed == ParseIntoArray(p.fields)
    IN  IF Len(parsed) < 3                           THEN Reply("usage")
        ELSE IF Len(colors) >= 3 /\ Fails(colors[1]) THEN Reply("r")
        ELSE IF Len(colors) >= 3 /\ Fails(colors[2]) THEN Reply("g")
        ELSE IF Len(colors) >= 3 /\ Fails(colors[3]) THEN Reply("b")
        ELSE IF Fails(parsed[1])                     THEN Reply("scale")
        ELSE IF Fails(parsed[2])                     THEN Reply("time")
        ELSE Shown(Color(colors), Number[parsed[1]], Number[parsed[2]],
                   SubSeq(parsed, 3, Len(parsed)))

\* Between packets there is nothing to answer.
Nothing == Reply("nothing")
Empty   == [colors |-> <<>>, fields |-> <<>>]

RconInit == packet = Empty /\ answer = Nothing

\* A packet comes in and is answered at once.
Receive ==
    /\ answer = Nothing
    /\ \E p \in Packets : packet' = p /\ answer' = Outcome(p)

Done == packet' = Empty /\ answer' = Nothing

RconNext == Receive \/ Done

RconSpec == RconInit /\ [][RconNext]_rconVars

-------------------------------------------------------------------------------
Numbers == {Number[t] : t \in Texts} \ {None}
IsNumber(t) == Number[t] # None

\* Every variable keeps its type; only numbers are shown as color, size and time.
AnswerOK ==
    /\ packet \in Packets
    /\ \/ answer \in [kind : {"reply"},
                      about : {"nothing", "usage", "r", "g", "b", "scale", "time"}]
       \/ /\ answer.kind = "shown"
          /\ answer.color \in [1..4 -> Numbers \cup {"255"}]
          /\ {answer.scale, answer.time} \subseteq Numbers
          /\ answer.message \in Lists(MaxFields)

WellFormed(p) ==
    /\ Len(p.colors) >= 3 /\ \A i \in DOMAIN p.colors : IsNumber(p.colors[i])
    /\ Len(p.fields) >= 3 /\ IsNumber(p.fields[1]) /\ IsNumber(p.fields[2])
    /\ \E i \in 3..Len(p.fields) : p.fields[i] # Blank

\* The places of the message's words among the first n fields.
Words(n) == {i \in 3..n : packet.fields[i] # Blank}

\* A packet whose color has three numbers or more, and whose other fields are in their
\* places, is shown with these three as red, green and blue, opaque whether it names
\* an alpha or not, in its size, for its duration, with its message; of which blanks
\* are all that is lost.
AsWritten ==
    WellFormed(packet) =>
        /\ answer.kind = "shown"
        /\ \A i \in 1..3 : answer.color[i] = Number[packet.colors[i]]
        /\ answer.color[4] = "255"
        /\ answer.scale = Number[packet.fields[1]]
        /\ answer.time = Number[packet.fields[2]]
        /\ Len(answer.message) = Cardinality(Words(Len(packet.fields)))
        /\ \A i \in Words(Len(packet.fields)) :
              answer.message[Cardinality(Words(i))] = packet.fields[i]

\* When a blank size or duration lets the fields after it move up, the check of
\* the numbers refuses the packet, unless its message begins with a number.
ShiftIsCaught ==
    /\ answer.kind = "shown"
    /\ Blank \in {packet.fields[1], packet.fields[2]}
    => \E i \in 3..Len(packet.fields) :
          /\ IsNumber(packet.fields[i])
          /\ \A j \in 3..(i - 1) : packet.fields[j] = Blank
===============================================================================
