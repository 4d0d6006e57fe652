------------------------------ MODULE Webserver ------------------------------
(***************************************************************************)
(* Webserver.c: one thread accepts clients and reads their requests; the   *)
(* program takes one ready client at a time, answers and ends it.  A       *)
(* request is a number of pieces, the last of which completes its header.  *)
(***************************************************************************)
EXTENDS Integers, Sequences, SequencesExt, FiniteSets, Subsequences

CONSTANTS
    Clients,        \* the clients that connect
    RequestPieces,  \* the reads it takes until a request is complete
    MaxBacklog,     \* MAX_ALLOWED_BUFFER_BACKLOG, in pieces
    MaxPieces       \* bound on what one client sends

VARIABLES
    pending,    \* webserver->pendingClients
    socket,     \* the state of each client's socket, "away" before it connects
    sent,       \* the pieces each client has sent that are not read yet
    buffered,   \* inputBufferLen, in pieces
    hung,       \* the clients that closed their side
    broken,     \* the clients whose socket is in an exceptional state
    handed,     \* the client WebserverWaitForClient returned
    served,     \* the clients that were returned so far, in order
    server      \* "up", "ended", or "crashed" when freed memory was used

webVars == <<pending, socket, sent, buffered, hung, broken, handed, served, server>>

WebInit ==
    /\ pending = <<>> /\ handed = <<>> /\ served = <<>>
    /\ socket = [c \in Clients |-> "away"]
    /\ sent = [c \in Clients |-> 0]
    /\ buffered = [c \in Clients |-> 0]
    /\ hung = {} /\ broken = {}
    /\ server = "up"

\* RemoveClient moves those behind the client up by one.  A slip: it ends one
\* short, and the last client is lost.
RemoveClientShort(q, c) == Within(Front(q), Clients \ {c})
RemoveClient(q, c) == Within(q, Clients \ {c})

\* RemoveClient of each of those that are ended.
RemoveEnded(q, ended) == Within(q, Clients \ ended)

\* FirstReadyClient: the first whose header is complete.
Ready(q, buf) == Within(q, {c \in Clients : buf[c] >= RequestPieces})

\* ProcessClientRead: what one recv brings, and whether the client stays.
ReadFails(c) ==
    \/ sent[c] = 0 /\ c \in hung
    \/ sent[c] > 0 /\ buffered[c] + sent[c] > MaxBacklog
ClientReadable(c) == sent[c] > 0 \/ c \in hung

-----------------------------------------------------------------------------
\* The clients.
Connect(c) ==
    /\ socket[c] = "away" /\ server = "up"
    /\ socket' = [socket EXCEPT ![c] = "waiting"]
    /\ UNCHANGED <<pending, sent, buffered, hung, broken, handed, served, server>>
Send(c) ==
    /\ socket[c] \in {"waiting", "open"} /\ c \notin hung
    /\ sent[c] + buffered[c] < MaxPieces
    /\ sent' = [sent EXCEPT ![c] = @ + 1]
    /\ UNCHANGED <<pending, socket, buffered, hung, broken, handed, served, server>>
HangUp(c) ==
    /\ socket[c] \in {"waiting", "open"} /\ c \notin hung
    /\ hung' = hung \cup {c}
    /\ UNCHANGED <<pending, socket, sent, buffered, broken, handed, served, server>>
Break(c) ==
    /\ socket[c] = "open" /\ c \notin broken
    /\ broken' = broken \cup {c}
    /\ UNCHANGED <<pending, socket, sent, buffered, hung, handed, served, server>>

\* WebserverWaitForClient.  A ready client is returned at once.  Otherwise
\* select reports who can be read: at most one client is accepted, which is not
\* read yet, and those whose read fails or whose socket has an exception are
\* ended; one that is both is ended twice.
HandToWorker(q, buf) ==
    LET ready == Ready(q, buf)
    IN  IF ready = <<>> THEN pending' = q /\ handed' = <<>> /\ served' = served
        ELSE /\ pending' = RemoveClient(q, ready[1])
             /\ handed' = <<ready[1]>>
             /\ served' = Append(served, ready[1])

WaitReady ==
    /\ server = "up" /\ handed = <<>>
    /\ Ready(pending, buffered) # <<>>
    /\ HandToWorker(pending, buffered)
    /\ UNCHANGED <<socket, sent, buffered, hung, broken, server>>
WaitSelect ==
    /\ server = "up" /\ handed = <<>>
    /\ Ready(pending, buffered) = <<>>
    /\ \E new \in {<<>>} \cup {<<c>> : c \in {d \in Clients : socket[d] = "waiting"}} :
        LET old == ToSet(pending)
            read == {c \in old : ClientReadable(c) /\ ~ReadFails(c)}
            ended == {c \in old : (ClientReadable(c) /\ ReadFails(c)) \/ c \in broken}
            twice == {c \in old : ClientReadable(c) /\ ReadFails(c) /\ c \in broken}
            buf == [c \in Clients |-> IF c \in read THEN buffered[c] + sent[c] ELSE buffered[c]]
            left == RemoveEnded(pending \o new, ended)
        IN  /\ new = <<>> => \A c \in Clients : socket[c] # "waiting"
            /\ buffered' = buf
            /\ sent' = [c \in Clients |-> IF c \in read THEN 0 ELSE sent[c]]
            /\ socket' = [c \in Clients |-> IF c \in ended THEN "closed"
                                            ELSE IF new = <<c>> THEN "open" ELSE socket[c]]
            /\ server' = IF twice = {} THEN "up" ELSE "crashed"
            /\ HandToWorker(left, buf)
            /\ UNCHANGED <<hung, broken>>

\* The program answers and ends the client it was given (the answer is sent
\* to the last byte or given up on an error: nothing is kept).
ClientEnd ==
    /\ server = "up" /\ handed # <<>>
    /\ socket' = [socket EXCEPT ![handed[1]] = "closed"]
    /\ handed' = <<>>
    /\ UNCHANGED <<pending, sent, buffered, hung, broken, served, server>>

\* WebserverEnd frees the clients and does not close their sockets.
WebserverEnd ==
    /\ server = "up" /\ handed = <<>>
    /\ server' = "ended"
    /\ pending' = <<>>
    /\ UNCHANGED <<socket, sent, buffered, hung, broken, handed, served>>

WebNext ==
    \/ \E c \in Clients : Connect(c) \/ Send(c) \/ HangUp(c) \/ Break(c)
    \/ WaitReady
    \/ WaitSelect
    \/ ClientEnd
    \/ WebserverEnd

WebSpec == WebInit /\ [][WebNext]_webVars

-----------------------------------------------------------------------------
\* While the server runs no client is lost and none is served twice: an open
\* socket belongs to exactly one client that is pending or handed to the
\* program, and a closed one to none.
ClientsAccounted ==
    server = "up" =>
        /\ IsInjective(pending) /\ IsInjective(served)
        /\ {c \in Clients : socket[c] = "open"} = ToSet(pending) \cup ToSet(handed)
        /\ ToSet(pending) \cap ToSet(served) = {}
=============================================================================
