------------------------------ MODULE PacketFs ------------------------------
(***************************************************************************)
(* The packet manager of modules/packetfs: one instance below /dev/pmgr,   *)
(* the threads that kopen it, and the packets between the server and its   *)
(* clients.  Its pipes are the byte streams that Pipe implements: a write  *)
(* is one step, a read waits for all its bytes.  A packet is a header      *)
(* token and one token per byte of data.                                   *)
(***************************************************************************)
EXTENDS Integers, Sequences, FiniteSets, SequencesExt

CONSTANTS
    Creators,          \* threads that open the name with O_CREAT
    Clients,           \* threads that open it without
    All,               \* header->target is NULL: a broadcast
    Sizes,             \* sizes of data
    MAX_PACKET_SIZE,
    MaxSends,          \* bound: packets sent by each client
    MaxAnswers         \* bound: packets sent by the server

PacketFsConstants ==
    /\ Creators \cap Clients = {} /\ All \notin Creators \cup Clients
    /\ Sizes \subseteq Nat
    /\ MAX_PACKET_SIZE \in Nat /\ MaxSends \in Nat /\ MaxAnswers \in Nat

Threads == Creators \cup Clients

VARIABLES
    exists, new,       \* the instance is in pmgr->filesystem; instance->new
    clients,           \* instance->clients
    node,              \* what kopen gave a thread
    pc,
    server_pipe, pipe, \* tokens in instance->server_pipe, in each client->pipe
    temp,              \* the header packetfs_receive_packet has read
    inbox,             \* packets each thread has taken out of its pipe
    sent,              \* packets each client has sent
    target,            \* targets of the packets sent to clients, in order
    cursor,            \* clients the broadcast has reached
    joined             \* broadcasts begun when a client joined

naming == <<exists, new, clients, node, joined>>
traffic == <<server_pipe, pipe, temp, inbox, sent, target, cursor>>
vars == <<naming, pc, traffic>>

NoHeader == [source |-> All, num |-> 0, size |-> 0]

Init ==
    /\ exists = FALSE /\ new = FALSE /\ clients = <<>>
    /\ node = [t \in Threads |-> "none"] /\ pc = [t \in Threads |-> "find"]
    /\ server_pipe = <<>> /\ pipe = [c \in Clients |-> <<>>]
    /\ temp = [t \in Threads |-> NoHeader] /\ inbox = [t \in Threads |-> <<>>]
    /\ sent = [c \in Clients |-> 0] /\ target = <<>> /\ cursor = 0
    /\ joined = [c \in Clients |-> 0]

Go(t, l) == pc' = [pc EXCEPT ![t] = l]
NodeIs(t, n) == node' = [node EXCEPT ![t] = n]

-----------------------------------------------------------------------------
(* kopen("/dev/pmgr/name"): finddir, create when there is nothing, open. *)

(* packetfs_finddir, under pmgr->lock. *)
packetfs_finddir(t) ==
    /\ pc[t] = "find"
    /\ \/ exists /\ NodeIs(t, "file") /\ Go(t, "open")
       \/ ~exists /\ t \in Creators /\ Go(t, "create") /\ UNCHANGED node
    /\ UNCHANGED <<exists, new, clients, joined, traffic>>

(* packetfs_create, under pmgr->lock; when it returns NULL kopen falls     *)
(* back to the directory.                                                  *)
packetfs_create(t) ==
    /\ pc[t] = "create"
    /\ IF exists
       THEN NodeIs(t, "directory") /\ Go(t, "done") /\ UNCHANGED <<exists, new>>
       ELSE NodeIs(t, "file") /\ Go(t, "open") /\ exists' = TRUE /\ new' = TRUE
    /\ UNCHANGED <<clients, joined, traffic>>

(* packetfs_open with O_CREAT: the test of new and its reset, under no     *)
(* lock.  Two threads that both find it set both become the server.        *)
OpenServer(t) ==
    /\ pc[t] = "open" /\ t \in Creators
    /\ Go(t, IF new THEN "reset" ELSE "done")
    /\ UNCHANGED <<naming, traffic>>
ResetNew(t) ==
    /\ pc[t] = "reset"
    /\ new' = FALSE /\ NodeIs(t, "server") /\ Go(t, "idle")
    /\ UNCHANGED <<exists, clients, joined, traffic>>

(* packetfs_open without O_CREAT; instance->lock is not taken. *)
OpenClient(t) ==
    /\ pc[t] = "open" /\ t \in Clients
    /\ clients' = Append(clients, t) /\ NodeIs(t, "client") /\ Go(t, "idle")
    /\ joined' = [joined EXCEPT ![t] = Len(target)]
    /\ UNCHANGED <<exists, new, traffic>>

-----------------------------------------------------------------------------
(* Packets *)

Header(s, k, n) == [source |-> s, num |-> k, size |-> n]
Data(h) == [i \in 1 .. h.size |->
                [source |-> h.source, num |-> h.num, byte |-> i]]

Packet(h) == <<h>> \o Data(h)

(* packetfs_client_write and packetfs_send_to_server *)
packetfs_client_write(c, n) ==
    /\ pc[c] = "idle" /\ node[c] = "client" /\ n <= MAX_PACKET_SIZE /\ sent[c] < MaxSends
    /\ sent' = [sent EXCEPT ![c] = @ + 1]
    /\ server_pipe' = server_pipe \o Packet(Header(c, sent'[c], n))
    /\ UNCHANGED <<naming, pc, pipe, temp, inbox, target, cursor>>

(* packetfs_server_write to one client *)
SendToClient(s, c, n) ==
    /\ pc[s] = "idle" /\ node[s] = "server" /\ n <= MAX_PACKET_SIZE /\ Len(target) < MaxAnswers
    /\ c \in ToSet(clients)
    /\ target' = Append(target, c)
    /\ pipe' = [pipe EXCEPT ![c] = @ \o Packet(Header(s, Len(target'), n))]
    /\ UNCHANGED <<naming, pc, server_pipe, temp, inbox, sent, cursor>>

(* packetfs_server_write to all, under instance->lock *)
Broadcast(s) ==
    /\ pc[s] = "idle" /\ node[s] = "server" /\ Len(target) < MaxAnswers
    /\ \A u \in Threads : pc[u] # "broadcast"
    /\ target' = Append(target, All)
    /\ cursor' = 0 /\ Go(s, "broadcast")
    /\ UNCHANGED <<naming, server_pipe, pipe, temp, inbox, sent>>

(* Mutant: the loop ends before the last client. *)
SkipsLast(s) ==
    /\ pc[s] = "broadcast"
    /\ IF cursor < Len(clients) - 1
       THEN /\ cursor' = cursor + 1
            /\ pipe' = [pipe EXCEPT ![clients[cursor']] =
                            @ \o Packet(Header(s, Len(target), MAX_PACKET_SIZE))]
            /\ UNCHANGED pc
       ELSE Go(s, "idle") /\ UNCHANGED <<cursor, pipe>>
    /\ UNCHANGED <<naming, server_pipe, temp, inbox, sent, target>>

(* One iteration of its foreach, and the end of it. *)
BroadcastStep(s) ==
    /\ pc[s] = "broadcast"
    /\ IF cursor < Len(clients)
       THEN /\ cursor' = cursor + 1
            /\ pipe' = [pipe EXCEPT ![clients[cursor']] =
                            @ \o Packet(Header(s, Len(target), MAX_PACKET_SIZE))]
            /\ UNCHANGED pc
       ELSE Go(s, "idle") /\ UNCHANGED <<cursor, pipe>>
    /\ UNCHANGED <<naming, server_pipe, temp, inbox, sent, target>>

(* packetfs_receive_packet: two reads of the pipe *)
Incoming(t) == IF t \in Clients THEN pipe[t] ELSE server_pipe

Consume(t, n) ==
    IF t \in Clients
    THEN pipe' = [pipe EXCEPT ![t] = SubSeq(@, n + 1, Len(@))] /\ UNCHANGED server_pipe
    ELSE server_pipe' = SubSeq(server_pipe, n + 1, Len(server_pipe)) /\ UNCHANGED pipe

(* Data that another reader has left is taken for a header of any size. *)
AsHeader(token) == IF "size" \in DOMAIN token THEN {token} ELSE {[NoHeader EXCEPT !.size = n] : n \in Sizes}

ReadHeader(t) ==
    /\ pc[t] = "idle" /\ node[t] \in {"server", "client"} /\ Incoming(t) # <<>>
    /\ \E h \in AsHeader(Head(Incoming(t))) : temp' = [temp EXCEPT ![t] = h]
    /\ Consume(t, 1)
    /\ Go(t, "data")
    /\ UNCHANGED <<naming, inbox, sent, target, cursor>>

(* packetfs_server_read and packetfs_client_read; a packet that is too     *)
(* large for the reader's buffer is taken out of the pipe all the same.    *)
ReadData(t) ==
    LET n == temp[t].size IN
    /\ pc[t] = "data" /\ Len(Incoming(t)) >= n
    /\ inbox' = [inbox EXCEPT ![t] = Append(@,
                    [header |-> temp[t], data |-> SubSeq(Incoming(t), 1, n)])]
    /\ Consume(t, n)
    /\ temp' = [temp EXCEPT ![t] = NoHeader]
    /\ Go(t, "idle")
    /\ UNCHANGED <<naming, sent, target, cursor>>

Next ==
    \E t \in Threads :
        \/ packetfs_finddir(t) \/ packetfs_create(t) \/ OpenServer(t) \/ ResetNew(t)
        \/ OpenClient(t) \/ Broadcast(t) \/ BroadcastStep(t) \/ ReadHeader(t) \/ ReadData(t)
        \/ \E n \in Sizes : t \in Clients /\ packetfs_client_write(t, n)
        \/ \E n \in Sizes, c \in Clients : SendToClient(t, c, n)

Spec == Init /\ [][Next]_vars

-----------------------------------------------------------------------------
(* Properties *)

(* One thread reads instance->server_pipe.  With two, which two creators   *)
(* at the same time become, packets are torn and nothing below is claimed. *)
OneServer == Cardinality({s \in Creators : node[s] = "server"}) <= 1

(* With one server, whatever the clients' writes and the two reads of a    *)
(* packet interleave to, each reader takes packets as they were sent: a    *)
(* header and the data that belongs to it.                                 *)
PacketsIntact ==
    OneServer =>
        \A t \in Threads : \A i \in DOMAIN inbox[t] :
            inbox[t][i].data = Data(inbox[t][i].header)

(* The numbers of the packets from s that t has read, is reading and has   *)
(* waiting.                                                                *)
Numbers(s, t) ==
    LET heads == [i \in DOMAIN inbox[t] |-> inbox[t][i].header] \o
                 (IF pc[t] = "data" THEN <<temp[t]>> ELSE <<>>) \o
                 SelectSeq(Incoming(t), LAMBDA x : "size" \in DOMAIN x)
        from == SelectSeq(heads, LAMBDA h : h.source = s)
    IN  [i \in DOMAIN from |-> from[i].num]

(* One server takes every packet of every client once and in the order     *)
(* that client wrote them.                                                 *)
ServerSeesAll ==
    OneServer =>
        \A s \in Creators, c \in Clients :
            node[s] = "server" => Numbers(c, s) = [k \in 1 .. sent[c] |-> k]

(* A client gets, in order and once, every packet the one server addresses *)
(* to it or broadcasts after it joined, although it joins without          *)
(* instance->lock while a broadcast walks the list; of that broadcast it   *)
(* may get its copy or not.                                                *)
ClientSeesAll ==
    OneServer =>
        \A s \in Creators, c \in Clients : node[s] = "server" =>
            LET got == Numbers(s, c)
                due == {k \in joined[c] + 1 .. Len(target) : target[k] \in {All, c}}
            IN  /\ \A i \in DOMAIN got : i > 1 => got[i - 1] < got[i]
                /\ ToSet(got) \subseteq due \cup {joined[c]}
                /\ node[c] = "client" /\ pc[s] # "broadcast" => due \subseteq ToSet(got)
=============================================================================
