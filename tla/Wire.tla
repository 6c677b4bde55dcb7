--------------------------------- MODULE Wire ---------------------------------
(***************************************************************************)
(* One request over one connection, byte by byte: verify() of remote.js or *)
(* of client.py at one end, the loop of _handle() at the other.  Both ends *)
(* look for lines; the network cuts what is written into chunks of any     *)
(* size, and either end may go away with part of a line delivered.         *)
(*                                                                         *)
(* RemoteGuard.tla takes the request and the answer for messages that      *)
(* arrive whole or not at all; this module shows that they do.             *)
(*                                                                         *)
(* A line is a head (the request, or the verdict of an answer), padding, a *)
(* character of two bytes, the end of the JSON value, and a newline.       *)
(***************************************************************************)
EXTENDS Naturals, Sequences

CONSTANTS
  Verdict,   \* "allow", "deny" and any others
  Padding,   \* sizes of the padding
  Limit      \* limit of a StreamReader, 64 KiB

ASSUME VerdictAssumption == {"allow", "deny"} \subseteq Verdict

(* Verdicts are strings, and no verdict is one of the words used here for  *)
(* the other parts of a line or for their absence.                         *)
ASSUME HeadAssumption    == Verdict \cap {"request", "x", "hi", "lo", "end", "newline", "?",
                                           "raised", "nothing"} = {}

ASSUME SizeAssumption    == Padding \subseteq Nat /\ Limit \in Nat

VARIABLES
  client,    \* "js" (remote.js) or "py" (client.py)
  pc,        \* where its verify() is
  verdict,   \* what it came to
  line,      \* the line it parsed
  buffer,    \* what it has received: characters (js) or bytes (py)
  up,        \* bytes on their way to the verifier
  ended,     \* the client has closed its direction
  handler,   \* where _handle() is
  inbox,     \* its StreamReader
  down,      \* bytes on their way to the client
  closed,    \* the verifier's end is closed
  evidence,  \* admission rows
  reply      \* the line that _handle() wrote for the request

clientVars == <<client, pc, verdict, line, buffer>>
serverVars == <<handler, inbox, evidence, reply>>
vars == <<clientVars, up, ended, serverVars, down, closed>>

Text(head, n) == <<head>> \o [i \in 1 .. n |-> "x"] \o <<"hi", "lo", "end", "newline">>

Init ==
  /\ client \in {"js", "py"}
  /\ pc = "idle"
  /\ verdict = "deny"
  /\ line = <<>> /\ buffer = <<>> /\ inbox = <<>>
  /\ up = <<>> /\ down = <<>>
  /\ ended = FALSE /\ closed = FALSE
  /\ handler = "none"
  /\ evidence = {}
  /\ reply = <<>>

First(s, n) == SubSeq(s, 1, n)
Rest(s, n)  == SubSeq(s, n + 1, Len(s))
Has(s, b)   == \E i \in DOMAIN s : s[i] = b

(* How much of s the first line takes, with its newline if it has one.     *)
LineLength(s) ==
  IF Has(s, "newline")
    THEN CHOOSE i \in DOMAIN s : s[i] = "newline" /\ ~Has(First(s, i - 1), "newline")
    ELSE Len(s)

(* readline() raises ValueError.                                           *)
TooLong(s) == LineLength(s) - (IF Has(s, "newline") THEN 1 ELSE 0) > Limit

(* json.loads() and JSON.parse() accept it: nothing of the value is        *)
(* missing.                                                                *)
Parses(s) == Has(s, "end")
-----------------------------------------------------------------------------
(* THE CLIENT                                                              *)

(* verify() is over, and its end is closed: end(), destroy(), close().     *)
Resolve(v, text) ==
  /\ pc' = "resolved"
  /\ verdict' = v
  /\ line' = text
  /\ ended' = TRUE

Connect ==
  /\ pc = "idle"
  /\ pc' = "connecting"
  /\ UNCHANGED <<client, verdict, line, buffer, up, ended, serverVars, down, closed>>

(* The connection is there: the request is written.                        *)
Send ==
  \E n \in Padding :
    /\ pc = "connecting"
    /\ pc' = "waiting"
    /\ up' = Text("request", n)
    /\ handler' = "reading"
    /\ UNCHANGED <<client, verdict, line, buffer, ended, inbox, evidence, reply, down, closed>>

(* chunk.toString("utf8"): a character that the chunk begins or ends       *)
(* inside of is lost.  A StreamReader keeps bytes.                         *)
Decoded(chunk) ==
  [i \in DOMAIN chunk |->
     IF client = "js" /\ \/ i = 1 /\ chunk[i] = "lo"
                         \/ i = Len(chunk) /\ chunk[i] = "hi"
       THEN "?" ELSE chunk[i]]

(* Mutants of Data: the first chunk is taken for the line; the connection  *)
(* is kept open for the next call.                                         *)
Data_FirstChunk ==
  \E n \in 1 .. Len(down) :
    /\ pc = "waiting"
    /\ down' = Rest(down, n)
    /\ Resolve(down[1], Decoded(First(down, n)))
    /\ UNCHANGED <<client, buffer, up, serverVars, closed>>

Data_KeepsOpen ==
  \E n \in 1 .. Len(down) :
    LET text == buffer \o Decoded(First(down, n)) IN
    /\ pc = "waiting"
    /\ down' = Rest(down, n)
    /\ IF Has(text, "newline")
         THEN /\ pc' = "resolved"
              /\ verdict' = text[1]
              /\ line' = First(text, LineLength(text))
              /\ UNCHANGED <<buffer, ended>>
         ELSE buffer' = text /\ UNCHANGED <<pc, verdict, line, ended>>
    /\ UNCHANGED <<client, up, serverVars, closed>>

(* A chunk arrives: the "data" event, or readline(), whose exceptions are  *)
(* a deny.                                                                 *)
Data ==
  \E n \in 1 .. Len(down) :
    LET text == buffer \o Decoded(First(down, n)) IN
    /\ pc = "waiting"
    /\ down' = Rest(down, n)
    /\ \/ /\ client = "py" /\ TooLong(text)
          /\ Resolve("deny", <<>>)
          /\ UNCHANGED buffer
       \/ /\ ~(client = "py" /\ TooLong(text))
          /\ Has(text, "newline")
          /\ Resolve(text[1], First(text, LineLength(text)))
          /\ UNCHANGED buffer
       \/ /\ ~(client = "py" /\ TooLong(text))
          /\ ~Has(text, "newline")
          /\ buffer' = text
          /\ UNCHANGED <<pc, verdict, line, ended>>
    /\ UNCHANGED <<client, up, serverVars, closed>>

(* open_connection() of client.py is outside its try block.                *)
Refused ==
  /\ pc = "connecting"
  /\ Resolve(IF client = "py" THEN "raised" ELSE "deny", <<>>)
  /\ UNCHANGED <<client, buffer, up, serverVars, down, closed>>

(* The verifier's end closed.  remote.js denies whatever is in its buffer; *)
(* readline() returns it, and it may be a whole value that only lacks the  *)
(* newline.  wait_closed() of a connection that broke raises.              *)
Closed ==
  /\ pc = "waiting"
  /\ closed /\ down = <<>>
  /\ \/ client = "py" /\ Parses(buffer) /\ Resolve(buffer[1], buffer)
     \/ client = "py" /\ Resolve("raised", <<>>)
     \/ ~(client = "py" /\ Parses(buffer)) /\ Resolve("deny", <<>>)
  /\ UNCHANGED <<client, buffer, up, serverVars, down, closed>>

(* remote.js only: client.py waits as long as it takes.  destroy() drops   *)
(* what has not been sent.                                                 *)
Timeout ==
  \E n \in 0 .. Len(up) :
    /\ client = "js"
    /\ pc \in {"connecting", "waiting"}
    /\ Resolve("deny", <<>>)
    /\ up' = First(up, n)
    /\ UNCHANGED <<client, buffer, serverVars, down, closed>>
-----------------------------------------------------------------------------
(* THE VERIFIER                                                            *)

Receive ==
  \E n \in 1 .. Len(up) :
    /\ handler = "reading"
    /\ inbox' = inbox \o First(up, n)
    /\ up' = Rest(up, n)
    /\ UNCHANGED <<clientVars, ended, handler, evidence, reply, down, closed>>

Write(text) == down' = down \o text /\ reply' = text

(* Mutant of Serve: the verdict is answered though it was not persisted.   *)
Serve_Unpersisted(text) ==
  \E v \in Verdict, n \in Padding :
    /\ Parses(text)
    /\ \/ evidence' = evidence \cup {[call |-> 1, params |-> text[1], verdict |-> v]}
       \/ UNCHANGED evidence
    /\ Write(Text(v, n))

(* One turn of the loop: verify(), which persists the admission, or an     *)
(* exception, which persists nothing and is answered with a deny.          *)
Serve(text) ==
  \E v \in Verdict, n \in Padding :
    /\ \/ /\ Parses(text)
          /\ evidence' = evidence \cup {[call |-> 1, params |-> text[1], verdict |-> v]}
       \/ v = "deny" /\ UNCHANGED evidence
    /\ Write(Text(v, n))

(* finally: writer.close().                                                *)
HangUp == handler' = "closed" /\ closed' = TRUE

(* Mutant of ReadLine: a line that is too long is skipped.                 *)
ReadLine_SkipsLong ==
  LET n == LineLength(inbox) IN
  /\ handler = "reading"
  /\ n > 0
  /\ Has(inbox, "newline") \/ TooLong(inbox) \/ (ended /\ up = <<>>)
  /\ inbox' = Rest(inbox, n)
  /\ IF TooLong(inbox) THEN UNCHANGED <<evidence, down, reply>> ELSE Serve(First(inbox, n))
  /\ UNCHANGED <<clientVars, up, ended, handler, closed>>

(* readline(): a line, ValueError, or at the end of the stream what is     *)
(* there, which ends the loop if it is nothing.                            *)
ReadLine ==
  LET n    == LineLength(inbox)
      over == ended /\ up = <<>>
  IN
  /\ handler = "reading"
  /\ Has(inbox, "newline") \/ TooLong(inbox) \/ over
  /\ IF TooLong(inbox) \/ inbox = <<>>
       THEN HangUp /\ UNCHANGED <<inbox, evidence, down, reply>>
       ELSE Serve(First(inbox, n)) /\ inbox' = Rest(inbox, n) /\ UNCHANGED <<handler, closed>>
  /\ UNCHANGED <<clientVars, up, ended>>

(* The process dies or the network breaks: some of the answer is lost.     *)
Break ==
  \E n \in 0 .. Len(down) :
    /\ handler = "reading"
    /\ HangUp
    /\ down' = First(down, n)
    /\ UNCHANGED <<clientVars, up, ended, inbox, evidence, reply>>
-----------------------------------------------------------------------------
Next ==
  \/ Connect \/ Refused \/ Send \/ Data \/ Closed \/ Timeout
  \/ Receive \/ ReadLine \/ Break

Spec == Init /\ [][Next]_vars

(* The network delivers and both processes run; no timer is needed.        *)
FairSpec == Spec /\ WF_vars(Data) /\ WF_vars(Closed) /\ WF_vars(Receive) /\ WF_vars(ReadLine)
-----------------------------------------------------------------------------
(* PROPERTIES                                                              *)

(* What a client parses is the line that was written for it, except that   *)
(* remote.js may have lost a character that two chunks shared, with which  *)
(* the receipt no longer verifies.  client.py may miss the newline.        *)
LineIntactUnlessSplit ==
  line # <<>> =>
    /\ Len(line) >= Len(reply) - (IF client = "py" THEN 1 ELSE 0)
    /\ \A i \in DOMAIN line :
         \/ line[i] = reply[i]
         \/ client = "js" /\ line[i] = "?" /\ reply[i] \in {"hi", "lo"}

(* No connection is leaked: when verify() is over, however it ended, the   *)
(* loop that served it ends too.                                           *)
HandlerEnds == (pc = "resolved" /\ handler = "reading") ~> (handler = "closed")

(* A client that got its connection gets a verdict, even from a line that  *)
(* is too long for one of the readers and from a verifier that dies.       *)
ClientSettles == (pc = "waiting") ~> (pc = "resolved")

(* The request may still reach verify(), or what there is of it.           *)
Pending == reply = <<>> /\ (pc = "waiting" \/ (handler = "reading" /\ inbox \o up # <<>>))

Guard == INSTANCE RemoteGuard WITH
  Call <- {1}, Object <- {1}, Value <- {"request"},
  Stringify <- [v \in {"request"} |-> v], Throws <- "throws", Nothing <- "nothing",
  MaxWrites <- 0, writes <- 0, touched <- {}, executed <- {},
  heap <- [o \in {1} |-> "request"], arg <- [c \in {1} |-> 1],
  pc <- [c \in {1} |-> pc],
  verdict <- [c \in {1} |-> IF verdict = "raised" THEN "deny" ELSE verdict],
  request <- [c \in {1} |-> IF Pending THEN "request" ELSE "nothing"],
  answer <- [c \in {1} |-> IF reply # <<>> /\ line = <<>> THEN reply[1] ELSE "nothing"]

(* The connection behaves as RemoteGuard.tla has it: a request is verified *)
(* at most once, also for a client that is gone; what is persisted is what *)
(* was asked; an answer that is not a deny is the one that was persisted;  *)
(* and a verdict comes from such an answer or is a deny.                   *)
ImplementsRemoteGuard == Guard!Spec
=============================================================================
