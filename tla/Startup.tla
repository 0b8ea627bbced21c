-------------------------------- MODULE Startup --------------------------------
(***************************************************************************)
(* The first half of main() in Mini-Project/Application: fetch the client  *)
(* configuration and the server list into files under /tmp, read the       *)
(* client's position, collect the nearest servers, and go on to measure or *)
(* return.  A fetch sends an HTTP/1.0 request and writes what comes until  *)
(* the peer closes; select waits three seconds and recv five.              *)
(***************************************************************************)
EXTENDS Naturals, Sequences, FiniteSets

CONSTANTS
  BUFFER,    \* pieces of a reply that fill the buffer rbuf (8192 bytes)
  MaxSent,   \* bound, per file: pieces a peer sends in one connection
  Left       \* per file: what an earlier run can have left in it

(* The two files, named for the requests that fetch them.                  *)
Files == {"config", "servers"}

(* What a reply is made of, as far as the program can tell: a line it      *)
(* looks for, a line end and a NUL; other bytes are as good as none.  Two  *)
(* line ends in a row are the blank line behind a header.                  *)
Pieces == {"data", "crlf", "nul"}

ASSUME StartupAssumption ==
  /\ BUFFER \in Nat \ {0} /\ MaxSent \in [Files -> Nat]
  /\ Left \in [Files -> SUBSET Seq(Pieces)]

VARIABLES
  USE_HTTPS, \* the Makefile's build flag
  step,      \* where the program is
  which,     \* the file it is fetching
  exists,    \* per file: whether it is there
  content,   \* per file: what is in it
  sent,      \* what the peer has sent on the connection
  taken,     \* how many pieces of it have been received
  ended,     \* how the peer ended the connection, if it did
  status,    \* what select returned: TRUE if the socket can be read
  lost,      \* the files whose fetch left a socket open
  ret,       \* history, per file: how its fetch ended
  first,     \* history: how many came with the first call of recv
  late,      \* history: whether select timed out on the connection
  past,      \* history: whether memory behind rbuf was taken for a reply
  before,    \* history: the files an earlier run had left
  outcome    \* how main() got on

netVars == <<sent, taken, first, ended, late, past>>
fileVars == <<exists, content>>
history == <<ret, before>>
vars == <<USE_HTTPS, step, which, fileVars, netVars, status, lost, history,
          outcome>>

-----------------------------------------------------------------------------
Steps == {"resolve", "connect", "handshake", "request", "select", "recv",
          "position", "nearest", "over"}

Init ==
  /\ USE_HTTPS \in BOOLEAN
  /\ step = "resolve" /\ which = "config"
  /\ exists \in [Files -> BOOLEAN]
  /\ content \in [Files -> UNION {Left[f] \union {<<>>} : f \in Files}]
  /\ \A f \in Files : content[f] \in IF exists[f] THEN Left[f] ELSE {<<>>}
  /\ sent = <<>> /\ taken = 0 /\ first = 0 /\ ended = "no"
  /\ late = FALSE /\ past = FALSE
  /\ status = FALSE /\ lost = {}
  /\ ret = [f \in Files |-> "none"]
  /\ before = {f \in Files : exists[f]}
  /\ outcome = "running"

-----------------------------------------------------------------------------
(* The peer of the open connection.                                        *)

Connected == step \in {"select", "recv"}

PeerSend ==
  /\ Connected /\ ended = "no" /\ Len(sent) < MaxSent[which]
  /\ \E b \in Pieces : sent' = Append(sent, b)
  /\ UNCHANGED <<USE_HTTPS, step, which, fileVars, taken, first, ended, late,
                 past, status, lost, history, outcome>>

PeerEnd ==
  /\ Connected /\ ended = "no"
  /\ ended' \in {"closed", "reset"}
  /\ UNCHANGED <<USE_HTTPS, step, which, fileVars, sent, taken, first, late,
                 past, status, lost, history, outcome>>

-----------------------------------------------------------------------------
(* A fetch that is over, and what main() does with the result.             *)

Message == [config |-> "no address", servers |-> "no servers"]

Proceed ==
  IF which = "config" THEN which' = "servers" /\ step' = "resolve" /\ UNCHANGED outcome
  ELSE step' = "position" /\ UNCHANGED <<which, outcome>>

(* Mutant: the HTTP build has the test of the HTTPS build.                 *)
StopsOnMinusOne(r) == r \in {"broken", "refused"} /\ USE_HTTPS

(* get_http_file returns 0 only if recv fails, and -1 if the connection or *)
(* the request does, which main() takes for success; get_https_file        *)
(* returns -1 for all of them.                                             *)
Stops(r) == r = "broken" \/ (r = "refused" /\ USE_HTTPS)

Finish(r) ==
  /\ ret' = [ret EXCEPT ![which] = r]
  /\ IF Stops(r)
     THEN step' = "over" /\ outcome' = Message[which] /\ UNCHANGED which
     ELSE Proceed
  /\ sent' = <<>> /\ taken' = 0 /\ first' = 0 /\ ended' = "no"
  /\ late' = FALSE /\ past' = FALSE /\ status' = FALSE

(* get_ipv4_addr: a name that does not resolve is passed over.             *)
get_ipv4_addr ==
  /\ step = "resolve"
  /\ \/ step' = "connect" /\ UNCHANGED <<which, outcome>>
     \/ Proceed
  /\ UNCHANGED <<USE_HTTPS, fileVars, netVars, status, lost, history>>

(* init_connection leaves the socket open when connect fails.  The HTTPS   *)
(* build hands the failure to SSL_connect, which fails too.                *)
init_connection ==
  /\ step = "connect"
  /\ \/ /\ step' = IF USE_HTTPS THEN "handshake" ELSE "request"
        /\ UNCHANGED <<which, netVars, status, lost, ret, outcome>>
     \/ /\ Finish("refused")
        /\ lost' \in {lost, lost \union {which}}
  /\ UNCHANGED <<USE_HTTPS, fileVars, before>>

SSL_connect ==
  /\ step = "handshake"
  /\ \/ /\ step' = "request"
        /\ UNCHANGED <<which, netVars, status, lost, ret, outcome>>
     \/ /\ Finish("refused")
        /\ lost' = lost \union {which}
  /\ UNCHANGED <<USE_HTTPS, fileVars, before>>

(* fopen with mode "w+" empties the file.                                  *)
fopen == [content EXCEPT ![which] = <<>>]

(* The request; the HTTP build closes the socket if it cannot be sent.     *)
make_request ==
  /\ step = "request"
  /\ \/ /\ exists' = [exists EXCEPT ![which] = TRUE]
        /\ content' = fopen
        /\ step' = "select"
        /\ UNCHANGED <<which, netVars, status, lost, ret, outcome>>
     \/ /\ Finish("refused")
        /\ lost' = IF USE_HTTPS THEN lost \union {which} ELSE lost
        /\ UNCHANGED fileVars
  /\ UNCHANGED <<USE_HTTPS, before>>

(* Something recv can return.  Under TLS select sees less and more: data   *)
(* SSL_read left in the library are invisible to it, and a record of which *)
(* a part has come is visible.                                             *)
Readable == taken < Len(sent) \/ ended # "no"

select ==
  /\ step = "select"
  /\ \/ /\ Readable \/ USE_HTTPS
        /\ status' = TRUE /\ UNCHANGED late
     \/ /\ ~Readable \/ (USE_HTTPS /\ taken > 0 /\ taken < Len(sent))
        /\ status' = FALSE /\ late' = TRUE
  /\ step' = "recv"
  /\ UNCHANGED <<USE_HTTPS, which, fileVars, sent, taken, first, ended, past,
                 lost, history, outcome>>

(* How many pieces of t come before the first of the places in stop.       *)
Before(t, stop) ==
  Cardinality({n \in 1 .. Len(t) : \A i \in 1 .. n : i \notin stop})

(* The length of what a C string function sees of t.                       *)
strlen(t) == Before(t, {i \in DOMAIN t : t[i] = "nul"})

BlankLines(t) ==
  {k \in DOMAIN t : k + 1 \in DOMAIN t /\ t[k] = "crlf" /\ t[k + 1] = "crlf"}

(* strstr(t, "\r\n\r\n") - t, where there is one.                            *)
strstr(t) == Before(t, BlankLines(t))

(* Mutant: the first line end only is skipped.                             *)
SkipTwoBytes(block, beyond) ==
  LET all == block \o beyond
      rbuf == SubSeq(all, 1, strlen(all))
  IN IF BlankLines(rbuf) = {} THEN block
     ELSE SubSeq(rbuf, strstr(rbuf) + 2, Len(rbuf))

(* What one block adds to the file.  Every block is searched for a blank   *)
(* line, up to its first NUL: if there is one, what follows it is written, *)
(* up to the NUL, and otherwise the whole block.  beyond is what the       *)
(* string functions see behind a buffer that is full and holds no NUL.     *)
Written(block, beyond) ==
  LET all == block \o beyond
      rbuf == SubSeq(all, 1, strlen(all))
  IN IF BlankLines(rbuf) = {} THEN block
     ELSE SubSeq(rbuf, strstr(rbuf) + 3, Len(rbuf))

(* What can lie behind rbuf before the next NUL: nothing that counts, a    *)
(* line end, or the request in sbuf, which ends with a blank line.         *)
Beyond == {<<>>, <<"crlf">>, <<"crlf", "crlf">>}

(* recv returns any part of what has come, at most a buffer.  What it      *)
(* returns after select timed out is not written.                          *)
RecvData ==
  /\ step = "recv"
  /\ \E n \in taken + 1 .. Len(sent), beyond \in Beyond :
       LET block == SubSeq(sent, taken + 1, n) IN
       /\ n <= taken + BUFFER
       /\ beyond # <<>> => status /\ n = taken + BUFFER
       /\ taken' = n
       /\ first' = IF taken = 0 THEN n ELSE first
       /\ content' = IF status
                     THEN [content EXCEPT ![which] = @ \o Written(block, beyond)]
                     ELSE content
       /\ past' = (past \/ Written(block, beyond) # Written(block, <<>>))
  /\ step' = "select"
  /\ UNCHANGED <<USE_HTTPS, which, exists, sent, ended, late, status, lost,
                 history, outcome>>

(* Mutant: the end of the stream does not end the loop.                    *)
IgnoreEnd ==
  /\ step = "recv" /\ taken = Len(sent) /\ ended = "closed"
  /\ step' = "select"
  /\ UNCHANGED <<which, netVars, status, ret, outcome>>
  /\ UNCHANGED <<USE_HTTPS, fileVars, lost, before>>

(* recv returns zero.                                                      *)
RecvEnd ==
  /\ step = "recv" /\ taken = Len(sent) /\ ended = "closed"
  /\ IF status THEN Finish("whole")
     ELSE step' = "select" /\ UNCHANGED <<which, netVars, status, ret, outcome>>
  /\ UNCHANGED <<USE_HTTPS, fileVars, lost, before>>

(* Mutant: the error path returns without closing the socket.              *)
LeakOnError == lost \union {which}

(* The sockets left open when recv fails: the path closes its own.         *)
CloseOnError == lost

(* recv returns -1: the peer reset the connection, nothing came for five   *)
(* seconds, or SSL_read met an incomplete record.  After select timed out  *)
(* the error is passed over, and a socket reports a reset once: the next   *)
(* recv returns zero, as after a close.                                    *)
RecvError ==
  /\ step = "recv" /\ taken = Len(sent)
  /\ \/ ended = "reset" \/ (ended = "no" /\ ~status)
     \/ (USE_HTTPS /\ status)
  /\ IF status
     THEN Finish("broken") /\ lost' = CloseOnError
     ELSE /\ step' = "select"
          /\ ended' = IF ended = "reset" /\ ~USE_HTTPS THEN "closed" ELSE ended
          /\ UNCHANGED <<which, sent, taken, first, late, past, status, lost, ret,
                         outcome>>
  /\ UNCHANGED <<USE_HTTPS, fileVars, before>>

(* get_ip_address_position: fclose of a file that was not opened ends the  *)
(* process.                                                                *)
get_ip_address_position ==
  /\ step = "position"
  /\ IF exists["config"] THEN step' = "nearest" /\ UNCHANGED outcome
     ELSE step' = "over" /\ outcome' = "crashed"
  /\ UNCHANGED <<USE_HTTPS, which, fileVars, netVars, status, lost, history>>

(* get_nearest_server found a line with a server.                          *)
FoundServers == \E k \in DOMAIN content["servers"] : content["servers"][k] = "data"

get_nearest_server ==
  /\ step = "nearest"
  /\ step' = "over"
  /\ outcome' = IF FoundServers THEN "measuring" ELSE "no list"
  /\ UNCHANGED <<USE_HTTPS, which, fileVars, netVars, status, lost, history>>

Program ==
  \/ get_ipv4_addr \/ init_connection \/ SSL_connect \/ make_request \/ select
  \/ RecvData \/ RecvEnd \/ RecvError
  \/ get_ip_address_position \/ get_nearest_server

Next == PeerSend \/ PeerEnd \/ Program

(* The program keeps running; a peer may stop for ever.                    *)
FairSpec == Init /\ [][Next]_vars /\ WF_vars(Program)

-----------------------------------------------------------------------------
(* Type invariant.                                                         *)
TypeOK ==
  /\ USE_HTTPS \in BOOLEAN
  /\ step \in Steps /\ which \in Files
  /\ exists \in [Files -> BOOLEAN] /\ content \in [Files -> Seq(Pieces)]
  /\ sent \in Seq(Pieces) /\ taken \in 0 .. Len(sent) /\ first \in 0 .. taken
  /\ ended \in {"no", "closed", "reset"} /\ status \in BOOLEAN
  /\ late \in BOOLEAN /\ past \in BOOLEAN
  /\ lost \subseteq Files /\ before \subseteq Files
  /\ ret \in [Files -> {"none", "refused", "broken", "whole"}]
  /\ outcome \in {"running", "no address", "no servers", "crashed", "no list",
                  "measuring"}

Received == SubSeq(sent, 1, taken)

(* c is r with pieces left out.                                            *)
PartOf(c, r) ==
  \E f \in [DOMAIN c -> DOMAIN r] :
    /\ \A i \in DOMAIN c : c[i] = r[f[i]]
    /\ \A i, j \in DOMAIN c : i < j => f[i] < f[j]

(* A reply in which the loop keeps nothing back and drops nothing: its one *)
(* blank line, the one that ends the header, came whole with the first     *)
(* block, and there is no NUL in it.                                       *)
Simple(r) ==
  /\ \E k \in DOMAIN r : BlankLines(r) = {k} /\ k < first
  /\ \A i \in DOMAIN r : r[i] # "nul"

(* The file never holds anything that was not received in this fetch, nor  *)
(* in another order, and nothing of an earlier run; and it holds exactly   *)
(* the body of a simple reply, header removed, whatever the blocks the     *)
(* rest of it comes in.  Of other replies the header's first blocks are    *)
(* kept, what precedes a later blank line is lost, or what follows a NUL.  *)
(* Both end where memory behind a full buffer was taken for a part of it,  *)
(* the second also where select timed out.                                 *)
WrittenAsReceived ==
  Connected /\ ~past =>
    /\ PartOf(content[which], Received)
    /\ Simple(Received) /\ ~late =>
         content[which] = SubSeq(sent, strstr(Received) + 3, taken)

(* In the HTTPS build a measurement starts only after every fetch that got *)
(* an address was complete: no failure of one is passed over.              *)
HttpsStopsOnFailure ==
  outcome = "measuring" /\ USE_HTTPS =>
    \A f \in Files : ret[f] \in {"none", "whole"}

(* The program never measures on a file whose fetch broke off: each of the *)
(* two was read until the peer closed, or an earlier run had left one that *)
(* no fetch of this run has touched.                                       *)
MeasuresOnWholeFiles ==
  outcome = "measuring" =>
    \A f \in Files : ret[f] = "whole" \/ (f \in before /\ ret[f] # "broken")

(* A socket is left open only by a fetch that could not connect, shake     *)
(* hands or ask: a reply that breaks off leaks nothing.                    *)
OnlyRefusedLeaks == \A f \in lost : ret[f] = "refused"

(* The first half ends, unless a peer neither sends nor closes.            *)
StartsUnlessPeerSilent ==
  <>(step = "over") \/ <>[](Connected /\ ended = "no")

(* What main's message announces: if the configuration could not be        *)
(* fetched and no earlier one is there, the program says so and returns.   *)
MissingConfigIsReported ==
  step = "over" /\ ~exists["config"] => outcome = "no address"
=============================================================================
