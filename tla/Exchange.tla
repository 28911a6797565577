------------------------------ MODULE Exchange ------------------------------
(***************************************************************************)
(* One HTTP exchange of OS_HW3_234123: a worker of the server in           *)
(* requestHandle (request.c), the client (client.c), the CGI program the   *)
(* worker may fork (output.c), and the TCP connection between them.        *)
(*                                                                         *)
(* Each direction of the connection is the sequence of symbols written to  *)
(* it so far and the number of them that read() has delivered.  A read or  *)
(* a write moves any part of what it could, read() can be interrupted, and *)
(* either end can go away.  An error in a wrapper of segel.c ends the      *)
(* process that met it: for a worker, the whole server.                    *)
(***************************************************************************)
EXTENDS Request

CONSTANTS
    Methods,   \* the methods clients send
    Requests,  \* the requests considered: pairs of a method and a URI
    SockBuf,   \* what each direction holds before write() blocks
    Leftover,  \* what an uninitialised line buffer can hold
    Junk       \* an uninitialised byte of rio_buf

Sides == {"server", "client"}          \* the two readers
Streams == {"req", "rsp"}              \* the two directions
Writers == {"worker", "cgi", "client"}

ASSUME RequestsAssumption ==
    Methods \subseteq Symbols /\ Requests \subseteq Methods \X Uris

ASSUME TokensAssumption == {CR, LF} \cap (Methods \cup Uris \cup Words) = {}

ASSUME SockBufAssumption == SockBuf \in [Streams -> Nat \ {0}]

ASSUME LeftoverAssumption == Leftover \subseteq Seq(Symbols) /\ Junk \in Symbols

VARIABLES
    sent,    \* everything written to each direction
    got,     \* how much of it read() has delivered
    rio,     \* the rio_t of each reader
    call,    \* rio_readlineb of each reader: "idle", "reading" or its result
    line,    \* the bytes it has stored so far
    text,    \* the line buffer, as the string strcmp and sscanf see
    read,    \* history: every byte rio_read has handed out
    left,    \* what each writer still has to write, by call of Rio_writen
    wpc,     \* where the worker is
    uri,     \* the URI of sscanf
    reply,   \* the kind of response the worker has decided on
    cgi,     \* the state of the CGI program
    cpc,     \* where the client is
    holders, \* the processes with the server's end of the socket open
    reset    \* the connection has been reset

readVars == <<rio, call, line, text, read>>
workerVars == <<wpc, uri, reply>>
vars == <<sent, got, readVars, left, workerVars, cgi, cpc, holders, reset>>

In(s) == IF s = "server" THEN "req" ELSE "rsp"
Out(p) == IF p = "client" THEN "req" ELSE "rsp"

Unread(d) == Len(sent[d]) - got[d]

(* Whether the process at the other end of a direction still reads it, or  *)
(* may still write it.                                                     *)
ClientOpen == cpc \notin {"done", "gone"}
ServerOpen == holders # {}
Read(d) == IF d = "req" THEN ServerOpen ELSE ClientOpen
Written(d) == IF d = "req" THEN ClientOpen ELSE ServerOpen

(* The process h drops its descriptor of the server's end.  The last one   *)
(* closes the connection, and resets it if the request was not read to its *)
(* end.                                                                    *)
Drop(h) ==
    /\ holders' = holders \ {h}
    /\ reset' = (reset \/ (holders = {h} /\ Unread("req") > 0))

(* exit(), in unix_error or anywhere else in the server. *)
ServerDies ==
    /\ wpc' = "dead"
    /\ call' = [call EXCEPT !["server"] = "idle"]
    /\ left' = [left EXCEPT !["worker"] = << >>]
    /\ Drop("worker")
    /\ UNCHANGED <<sent, got, rio, line, text, read, uri, reply, cgi, cpc>>

(* The same in the client.  A response not read to its end is reset. *)
ClientDies ==
    /\ cpc' = "gone"
    /\ call' = [call EXCEPT !["client"] = "idle"]
    /\ left' = [left EXCEPT !["client"] = << >>]
    /\ reset' = (reset \/ Unread("rsp") > 0)
    /\ UNCHANGED <<sent, got, rio, line, text, read, workerVars, cgi, holders>>

(* The CGI program ends, in whatever way. *)
CgiEnds(how) ==
    /\ cgi' = how
    /\ left' = [left EXCEPT !["cgi"] = << >>]
    /\ Drop("cgi")
    /\ UNCHANGED <<sent, got, readVars, workerVars, cpc>>

Init ==
    /\ sent = [d \in Streams |-> << >>]
    /\ got = [d \in Streams |-> 0]
    /\ rio = [s \in Sides |-> rio_readinitb([i \in 1..RIO_BUFSIZE |-> Junk])]
    /\ call = [s \in Sides |-> IF s = "server" THEN "reading" ELSE "idle"]
    /\ line = [s \in Sides |-> << >>]
    /\ \E t \in Leftover :
          text = [s \in Sides |-> IF s = "server" THEN t ELSE << >>]
    /\ read = [s \in Sides |-> << >>]
    /\ \E r \in Requests :
          left = [p \in Writers |->
                    IF p = "client" THEN <<clientSend(r[1], r[2])>> ELSE << >>]
    /\ wpc = "line" /\ reply = "none" /\ uri = Junk
    /\ cgi = "none"
    /\ cpc = "send"
    /\ holders = {"worker"} /\ reset = FALSE

-----------------------------------------------------------------------------
(* rio_readlineb in either program. *)

Reading(s) == call[s] = "reading"

Refilling(s) == Reading(s) /\ rio[s].cnt <= 0

(* read() returns some of what is there, at most a buffer full. *)
ReadSome(s) ==
    /\ Refilling(s)
    /\ \E k \in 1..RIO_BUFSIZE :
          /\ k <= Unread(In(s))
          /\ rio' = [rio EXCEPT ![s] = Refill(@,
                  SubSeq(sent[In(s)], got[In(s)] + 1, got[In(s)] + k))]
          /\ got' = [got EXCEPT ![In(s)] = @ + k]
    /\ UNCHANGED <<sent, call, line, text, read, left, workerVars, cgi, cpc,
                   holders, reset>>

(* EINTR: the loop of rio_read goes on. *)
ReadInterrupted(s) ==
    /\ Refilling(s)
    /\ rio' = [rio EXCEPT ![s] = NoBytes(@, -1)]
    /\ UNCHANGED <<sent, got, call, line, text, read, left, workerVars, cgi,
                   cpc, holders, reset>>

(* The end of the stream.  With nothing stored rio_readlineb returns 0 and *)
(* leaves the line buffer as it was, else it returns the last line.        *)
ReadEof(s) ==
    /\ Refilling(s)
    /\ Unread(In(s)) = 0 /\ ~Written(In(s))
    /\ rio' = [rio EXCEPT ![s] = NoBytes(@, 0)]
    /\ IF line[s] = << >>
       THEN call' = [call EXCEPT ![s] = "eof"] /\ UNCHANGED <<line, text>>
       ELSE /\ call' = [call EXCEPT ![s] = "line"]
            /\ text' = [text EXCEPT ![s] = line[s]]
            /\ line' = [line EXCEPT ![s] = << >>]
    /\ UNCHANGED <<sent, got, read, left, workerVars, cgi, cpc, holders, reset>>

(* read() fails, and Rio_readlineb ends the process. *)
ReadFails(s) ==
    /\ Refilling(s) /\ reset
    /\ IF s = "server" THEN ServerDies ELSE ClientDies

(* One byte from the buffer, and the line if it is complete. *)
TakeByte(s) ==
    LET l == Append(line[s], NextByte(rio[s])) IN
    /\ Reading(s) /\ rio[s].cnt > 0
    /\ rio' = [rio EXCEPT ![s] = Advance(@)]
    /\ read' = [read EXCEPT ![s] = Append(@, NextByte(rio[s]))]
    /\ IF LineDone(l)
       THEN /\ call' = [call EXCEPT ![s] = "line"]
            /\ text' = [text EXCEPT ![s] = l]
            /\ line' = [line EXCEPT ![s] = << >>]
       ELSE line' = [line EXCEPT ![s] = l] /\ UNCHANGED <<call, text>>
    /\ UNCHANGED <<sent, got, left, workerVars, cgi, cpc, holders, reset>>

-----------------------------------------------------------------------------
(* rio_writen in the worker and the client, stdio in the CGI program. *)

(* What is left of the chunks once write() took k bytes of the first. *)
AfterWrite(chunks, k) ==
    IF k = Len(Head(chunks)) THEN Tail(chunks)
    ELSE <<SubSeq(Head(chunks), k + 1, Len(Head(chunks)))>> \o Tail(chunks)

Writing(p) == left[p] # << >> /\ ~(p = "cgi" /\ cgi = "stopped")

(* write() takes any part of the chunk that the direction has room for. *)
WriteSome(p) ==
    /\ Writing(p) /\ Read(Out(p))
    /\ \E k \in 1..Len(Head(left[p])) :
          /\ Unread(Out(p)) + k <= SockBuf[Out(p)]
          /\ sent' = [sent EXCEPT ![Out(p)] = @ \o SubSeq(Head(left[p]), 1, k)]
          /\ left' = [left EXCEPT ![p] = AfterWrite(@, k)]
    /\ UNCHANGED <<got, readVars, workerVars, cgi, cpc, holders, reset>>

(* The other end is closed: the bytes are taken and thrown away, and the   *)
(* answer to them is a reset.                                              *)
WriteToNobody(p) ==
    /\ Writing(p) /\ ~Read(Out(p))
    /\ left' = [left EXCEPT ![p] = Tail(@)]
    /\ reset' = TRUE
    /\ UNCHANGED <<sent, got, readVars, workerVars, cgi, cpc, holders>>

(* SIGPIPE, or an error that Rio_writen turns into exit(). *)
WriteFails(p) ==
    /\ Writing(p) /\ reset
    /\ CASE p = "worker" -> ServerDies
         [] p = "client" -> ClientDies
         [] p = "cgi"    -> CgiEnds("failed")

-----------------------------------------------------------------------------
(* requestHandle, in the worker. *)

readline(s) == call' = [call EXCEPT ![s] = "reading"]

Returned(s) == call[s] \in {"line", "eof"}

(* The worker starts to write a response. *)
Respond(kind, chunks) ==
    /\ reply' = kind
    /\ left' = [left EXCEPT !["worker"] = chunks]
    /\ wpc' = "write"

(* The loop of requestReadhdrs entered without the read before it          *)
(* (mutation).                                                             *)
StartHeadersUnread == UNCHANGED call

(* The first read of requestReadhdrs. *)
StartHeaders == readline("server")

(* sscanf finds an i-th word: CR and LF are white space. *)
Token(t, i) == i <= Len(t) /\ t[i] \notin {CR, LF}

(* sscanf of the request line, the test of the method, and the start of    *)
(* requestReadhdrs with a line buffer of its own.  What sscanf does not    *)
(* find stays uninitialised.                                               *)
RequestLine ==
    /\ wpc = "line" /\ Returned("server")
    /\ \E m \in Methods, u \in Uris, buf \in Leftover :
          /\ Token(text["server"], 1) => m = text["server"][1]
          /\ Token(text["server"], 2) => u = text["server"][2]
          /\ uri' = u
          /\ \/ /\ m # "GET"
                /\ Respond("501", requestError("501"))
                /\ call' = [call EXCEPT !["server"] = "idle"]
                /\ UNCHANGED text
             \/ /\ m = "GET"
                /\ wpc' = "headers"
                /\ StartHeaders
                /\ text' = [text EXCEPT !["server"] = buf]
                /\ UNCHANGED <<reply, left>>
    /\ UNCHANGED <<sent, got, rio, line, read, cgi, cpc, holders, reset>>

(* The loop of requestReadhdrs: it looks at the line, never at the result  *)
(* of Rio_readlineb.                                                       *)
HeaderLine ==
    /\ wpc = "headers" /\ Returned("server")
    /\ \/ /\ text["server"] # EmptyLine
          /\ readline("server")
          /\ UNCHANGED wpc
       \/ /\ text["server"] = EmptyLine
          /\ call' = [call EXCEPT !["server"] = "idle"]
          /\ wpc' = "stat"
    /\ UNCHANGED <<sent, got, rio, line, text, read, left, uri, reply, cgi, cpc,
                   holders, reset>>

(* stat(), which may find no file, and the tests on st_mode. *)
Stat ==
    LET parsed == requestParseURI(uri) IN
    /\ wpc = "stat"
    /\ \/ Respond("404", requestError("404"))
       \/ ~Served(parsed) /\ Respond("403", requestError("403"))
       \/ /\ Served(parsed) /\ parsed.static
          /\ wpc' = "open"
          /\ UNCHANGED <<reply, left>>
       \/ Served(parsed) /\ ~parsed.static /\ Respond("dynamic", requestServeDynamic)
    /\ UNCHANGED <<sent, got, readVars, uri, cgi, cpc, holders, reset>>

(* requestServeStatic: Open and Mmap.  mmap() refuses an empty file. *)
MapFile ==
    LET file == requestParseURI(uri).file IN
    /\ wpc = "open"
    /\ \/ /\ Content[file] # << >>
          /\ Respond("static", requestServeStatic(file))
          /\ UNCHANGED <<sent, got, readVars, uri, cgi, cpc, holders, reset>>
       \/ Content[file] = << >> /\ ServerDies

(* Fork before the headers have been written (mutation). *)
HeadersWrittenOrNot == TRUE

HeadersWritten == left["worker"] = << >>

(* Fork, once the two writes of requestServeDynamic are done. *)
ForkCgi ==
    /\ wpc = "write" /\ HeadersWritten /\ reply = "dynamic"
    /\ wpc' = "wait"
    /\ cgi' = "exec"
    /\ holders' = holders \cup {"cgi"}
    /\ UNCHANGED <<sent, got, readVars, left, uri, reply, cpc, reset>>

(* The server ends without an error of the connection: Open fails because  *)
(* the file went after stat(), Mmap refuses an empty file, Fork fails, or  *)
(* another worker meets an error of its own.                               *)
ServerExits ==
    /\ wpc \notin {"done", "dead"}
    /\ ServerDies

(* WaitPid(WUNTRACED): a program that stops counts as one that ended. *)
WaitCgi ==
    /\ wpc = "wait" /\ cgi \in {"stopped", "ended", "failed"}
    /\ wpc' = "return"
    /\ UNCHANGED <<sent, got, readVars, left, uri, reply, cgi, cpc, holders,
                   reset>>

(* requestHandle returns after its last write. *)
LastWrite ==
    /\ wpc = "write" /\ left["worker"] = << >> /\ reply # "dynamic"
    /\ wpc' = "return"
    /\ UNCHANGED <<sent, got, readVars, left, uri, reply, cgi, cpc, holders,
                   reset>>

(* The close is forgotten (mutation). *)
CloseForgotten == UNCHANGED <<holders, reset>>

(* close(fd) in handle_reqs. *)
Close == Drop("worker")

CloseConnection ==
    /\ wpc = "return"
    /\ wpc' = "done"
    /\ Close
    /\ UNCHANGED <<sent, got, readVars, left, uri, reply, cgi, cpc>>

-----------------------------------------------------------------------------
(* The CGI program. *)

(* Execve, then the program's own output; if it fails, exit() flushes what *)
(* the server's log had buffered at fork() into the socket.                *)
ExecCgi ==
    /\ cgi = "exec"
    /\ \/ /\ cgi' = "run"
          /\ left' = [left EXCEPT !["cgi"] =
                <<Content[requestParseURI(uri).file]>>]
       \/ /\ cgi' = "unexecuted"
          /\ \E log \in {<< >>, << <<"log", LF>> >>} :
                left' = [left EXCEPT !["cgi"] = log]
    /\ UNCHANGED <<sent, got, readVars, workerVars, cpc, holders, reset>>

(* The program is stopped from outside, and perhaps resumed.  Bound: once. *)
StopCgi ==
    /\ cgi = "run" /\ cgi' = "stopped"
    /\ UNCHANGED <<sent, got, readVars, left, workerVars, cpc, holders, reset>>

ResumeCgi ==
    /\ cgi = "stopped" /\ cgi' = "resumed"
    /\ UNCHANGED <<sent, got, readVars, left, workerVars, cpc, holders, reset>>

ExitCgi ==
    /\ left["cgi"] = << >>
    /\ \/ cgi \in {"run", "resumed"} /\ CgiEnds("ended")
       \/ cgi = "unexecuted" /\ CgiEnds("failed")

-----------------------------------------------------------------------------
(* The client, and the rest of the world. *)

(* clientSend is done, clientPrint starts. *)
ClientSent ==
    /\ cpc = "send" /\ left["client"] = << >>
    /\ cpc' = "header"
    /\ readline("client")
    /\ UNCHANGED <<sent, got, rio, line, text, read, left, workerVars, cgi,
                   holders, reset>>

(* The loop over the headers, which ends at an empty line or the end. *)
ClientHeader ==
    /\ cpc = "header" /\ Returned("client")
    /\ cpc' = IF text["client"] # EmptyLine /\ call["client"] = "line"
              THEN "header" ELSE "body"
    /\ readline("client")
    /\ UNCHANGED <<sent, got, rio, line, text, read, left, workerVars, cgi,
                   holders, reset>>

(* The loop over the body, then Close(clientfd). *)
ClientBody ==
    /\ cpc = "body" /\ Returned("client")
    /\ \/ /\ call["client"] = "line"
          /\ readline("client") /\ UNCHANGED cpc
       \/ /\ call["client"] = "eof"
          /\ cpc' = "done" /\ call' = [call EXCEPT !["client"] = "idle"]
    /\ UNCHANGED <<sent, got, rio, line, text, read, left, workerVars, cgi,
                   holders, reset>>

(* The client is interrupted. *)
ClientVanishes == ClientOpen /\ ClientDies

(* Another worker forks a CGI program while this connection is open: the   *)
(* program inherits the descriptor and keeps it until it ends.             *)
OtherForks ==
    /\ "worker" \in holders
    /\ holders' = holders \cup {"other"}
    /\ UNCHANGED <<sent, got, readVars, left, workerVars, cgi, cpc, reset>>

OtherEnds ==
    /\ "other" \in holders
    /\ Drop("other")
    /\ UNCHANGED <<sent, got, readVars, left, workerVars, cgi, cpc>>

-----------------------------------------------------------------------------
ReadStep(s) == ReadSome(s) \/ ReadEof(s) \/ TakeByte(s)

WriteStep(p) == WriteSome(p) \/ WriteToNobody(p)

Worker ==
    \/ ReadStep("server") \/ WriteStep("worker")
    \/ RequestLine \/ HeaderLine \/ Stat \/ MapFile \/ ForkCgi
    \/ WaitCgi \/ LastWrite \/ CloseConnection

CgiProgram == WriteStep("cgi") \/ ExecCgi \/ ExitCgi

Client ==
    \/ ReadStep("client") \/ WriteStep("client")
    \/ ClientSent \/ ClientHeader \/ ClientBody

Faults ==
    \/ \E s \in Sides : ReadInterrupted(s) \/ ReadFails(s)
    \/ \E p \in Writers : WriteFails(p)
    \/ ServerExits \/ ClientVanishes
    \/ StopCgi \/ ResumeCgi \/ OtherForks

Next == Worker \/ CgiProgram \/ Client \/ OtherEnds \/ Faults

Spec == Init /\ [][Next]_vars

(* Each process runs, and other requests' CGI programs end.  Nobody has to *)
(* fail, vanish, stop a program or resume one.                             *)
FairSpec ==
    /\ Spec
    /\ WF_vars(Worker) /\ WF_vars(CgiProgram) /\ WF_vars(Client)
    /\ WF_vars(OtherEnds)

-----------------------------------------------------------------------------
(* Properties. *)

(* Type invariant. *)
ExchangeTypeOK ==
    /\ sent \in [Streams -> Seq(Symbols)]
    /\ got \in [Streams -> Nat]
    /\ rio \in [Sides -> RioT]
    /\ call \in [Sides -> {"idle", "reading", "line", "eof"}]
    /\ line \in [Sides -> Seq(Symbols)]
    /\ text \in [Sides -> Seq(Symbols)]
    /\ read \in [Sides -> Seq(Symbols)]
    /\ left \in [Writers -> Seq(Seq(Symbols))]
    /\ wpc \in {"line", "headers", "stat", "open", "write", "wait", "return",
                "done", "dead"}
    /\ uri \in Uris \cup {Junk}
    /\ reply \in {"none", "501", "404", "403", "static", "dynamic"}
    /\ cgi \in {"none", "exec", "run", "stopped", "resumed", "unexecuted",
                "ended", "failed"}
    /\ cpc \in {"send", "header", "body", "done", "gone"}
    /\ holders \subseteq {"worker", "cgi", "other"}
    /\ reset \in BOOLEAN

(* The unread bytes in a rio_t: rio_cnt can be -1. *)
Buffered(s) == IF rio[s].cnt < 0 THEN 0 ELSE rio[s].cnt

(* Robust reads (segel.c:331-421): whatever parts the bytes arrive in, and *)
(* whenever a read is interrupted, rio_read hands out exactly the bytes    *)
(* the other side wrote, in order, none lost, repeated or invented, and    *)
(* the line under construction is the last part of them.                   *)
ReadsInOrder ==
    \A s \in Sides :
        LET n == Len(read[s])
            k == Len(line[s])
        IN  /\ n + Buffered(s) = got[In(s)]
            /\ got[In(s)] <= Len(sent[In(s)])
            /\ \A i \in 1..n : read[s][i] = sent[In(s)][i]
            /\ \A i \in 1..Buffered(s) :
                  rio[s].buf[rio[s].ptr + i - 1] = sent[In(s)][n + i]
            /\ k <= n
            /\ \A i \in 1..k : line[s][i] = read[s][n - k + i]

EmptyLineEndsAt(t, i) ==
    i >= 3 /\ t[i - 2] = LF /\ t[i - 1] = CR /\ t[i] = LF

(* requestReadhdrs reads everything up to an empty line and no more        *)
(* (request.c:52-63): when it returns, what the worker has taken from the  *)
(* connection ends with the first empty line of the request, unless the    *)
(* client went away.                                                       *)
HeadersEndAtEmptyLine ==
    (wpc \in {"stat", "open", "write"} /\ reply # "501" /\ cpc # "gone") =>
        LET n == Len(read["server"]) IN
        /\ EmptyLineEndsAt(read["server"], n)
        /\ \A i \in 1..(n - 1) : ~EmptyLineEndsAt(read["server"], i)

(* The bytes of several writes in a row. *)
Joined(chunks) ==
    LET from[i \in 1..(Len(chunks) + 1)] ==
            IF i > Len(chunks) THEN << >> ELSE chunks[i] \o from[i + 1]
    IN  from[1]

(* What the worker itself writes for each kind of response. *)
Answer(kind, u) ==
    CASE kind = "static"  -> requestServeStatic(requestParseURI(u).file)
      [] kind = "dynamic" -> requestServeDynamic
      [] OTHER            -> requestError(kind)

(* The whole response of each kind, from the first status byte on. *)
WholeResponse ==
    Joined(IF reply = "dynamic"
           THEN Append(Answer(reply, uri), Content[requestParseURI(uri).file])
           ELSE Answer(reply, uri))

(* A client that reads to the end of the stream has everything the server  *)
(* side wrote, and that is a whole response with its parts in order        *)
(* (request.c:9-177, client.c:45-72), unless the server or the CGI program *)
(* ended early: the length in the headers is not compared with the body.   *)
ResponseComplete ==
    cpc = "done" =>
        /\ read["client"] = sent["rsp"]
        /\ wpc = "done" /\ cgi # "failed" => sent["rsp"] = WholeResponse

(* requestHandle returns or the server ends, with one exception: the       *)
(* client went away before the empty line and the loop of request.c:59     *)
(* reads the end of the stream for ever.                                   *)
WorkerReturns ==
    \/ <>(wpc \in {"done", "dead"})
    \/ <>[](wpc = "headers" /\ cpc = "gone")

(* The client gets to the end of the response or of itself, although the   *)
(* end shows only when every process that inherited the socket has closed  *)
(* it; a stopped CGI program alone keeps it waiting.                       *)
ClientEnds == <>(~ClientOpen) \/ <>[](cgi = "stopped")
=============================================================================
