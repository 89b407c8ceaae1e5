------------------------------ MODULE Sockets ------------------------------
(* How a thread gets a socket in include/httplib.h: create_socket() goes over  *)
(* the addresses of a host, with the steps of a server (bind and listen) or of *)
(* a client (create_client_socket: bind to an interface, connect, wait).  The  *)
(* table of descriptors is the process's: other threads and the rest of the    *)
(* program open and close descriptors in between, and a number that is free    *)
(* is given out again.                                                         *)
EXTENDS Integers, FiniteSets, FiniteSetsExt

CONSTANTS Thread,       \* threads that want a socket
          NoOne, Program,   \* who else may be named in the table
          MaxFd,        \* bound: descriptors of the process
          Addresses,    \* how many addresses getaddrinfo() gives
          MaxCalls      \* bound: calls of each thread

SocketsAssumption ==
    /\ {MaxFd, Addresses, MaxCalls} \subseteq Nat
    /\ {NoOne, Program} \cap Thread = {} /\ NoOne # Program

Descriptor == 1 .. MaxFd
INVALID == 0

VARIABLES table,        \* whose each descriptor is
          at,           \* where each thread is
          role,         \* what it is to be: server, client, client of an interface
          rp,           \* how many addresses it has tried
          sock,         \* its local variable
          error,        \* what the caller is told
          calls,        \* how many calls it has begun
          robbed        \* history: the first close of another's descriptor, by whom and after what

vars == <<table, at, role, rp, sock, error, calls, robbed>>

Roles == {"server", "client", "interface"}

TypeOK ==
    /\ table \in [Descriptor -> Thread \cup {NoOne, Program}]
    /\ at \in [Thread -> {"idle", "next", "flags", "bind", "connect", "wait", "failed", "close"}]
    /\ role \in [Thread -> Roles] /\ rp \in [Thread -> 0 .. Addresses]
    /\ sock \in [Thread -> Descriptor \cup {INVALID}]
    /\ error \in [Thread -> {"Success", "Connection", "BindIPAddress"}]
    /\ calls \in [Thread -> 0 .. MaxCalls]
    /\ robbed = <<>> \/ robbed \in Roles \X {"Success", "Connection", "BindIPAddress"}

Init ==
    /\ table = [f \in Descriptor |-> NoOne]
    /\ at = [t \in Thread |-> "idle"] /\ role = [t \in Thread |-> "server"]
    /\ rp = [t \in Thread |-> 0] /\ sock = [t \in Thread |-> INVALID]
    /\ error = [t \in Thread |-> "Success"] /\ calls = [t \in Thread |-> 0]
    /\ robbed = <<>>
-----------------------------------------------------------------------------
Free == {f \in Descriptor : table[f] = NoOne}

\* close( f ) by t: nothing happens to a descriptor that is not open.
Closes(t, f) ==
    /\ table' = [table EXCEPT ![f] = NoOne]
    /\ robbed' = IF robbed = <<>> /\ table[f] \notin {t, NoOne} THEN <<role[t], error'[t]>> ELSE robbed

Goes(t, to) == at' = [at EXCEPT ![t] = to]

\* The rest of the program.
ProgramOpens ==
    /\ Free # {}
    /\ table' = [table EXCEPT ![Min(Free)] = Program]
    /\ UNCHANGED <<at, role, rp, sock, error, calls, robbed>>

ProgramCloses(f) ==
    /\ table[f] = Program
    /\ table' = [table EXCEPT ![f] = NoOne]
    /\ UNCHANGED <<at, role, rp, sock, error, calls, robbed>>

Call(t, r) ==
    /\ at[t] = "idle" /\ sock[t] = INVALID /\ calls[t] < MaxCalls
    /\ Goes(t, "next")
    /\ role' = [role EXCEPT ![t] = r] /\ rp' = [rp EXCEPT ![t] = 0]
    /\ error' = [error EXCEPT ![t] = "Success"] /\ calls' = [calls EXCEPT ![t] = @ + 1]
    /\ UNCHANGED <<table, sock, robbed>>

\* The thread closes the socket it got, when it has no more use for it.
CloseSocket(t) ==
    /\ at[t] = "idle" /\ sock[t] # INVALID
    /\ UNCHANGED error
    /\ Closes(t, sock[t])
    /\ sock' = [sock EXCEPT ![t] = INVALID]
    /\ UNCHANGED <<at, role, rp, calls>>
-----------------------------------------------------------------------------
NextAddress(t) == Goes(t, "next") /\ rp' = [rp EXCEPT ![t] = @ + 1]

\* socket() gives the lowest free number, or fails.
CreateSocket(t) ==
    /\ at[t] = "next" /\ rp[t] < Addresses
    /\ \/ /\ Free # {}
          /\ table' = [table EXCEPT ![Min(Free)] = t]
          /\ sock' = [sock EXCEPT ![t] = Min(Free)]
          /\ Goes(t, "flags") /\ UNCHANGED rp
       \/ NextAddress(t) /\ UNCHANGED <<table, sock>>
    /\ UNCHANGED <<role, error, calls, robbed>>

\* fcntl( FD_CLOEXEC ) fails for a descriptor that is not open, and then the loop goes on.
SetFlags(t) ==
    /\ at[t] = "flags"
    /\ IF table[sock[t]] = NoOne THEN NextAddress(t)
       ELSE Goes(t, IF role[t] = "client" THEN "connect" ELSE "bind") /\ UNCHANGED rp
    /\ UNCHANGED <<table, role, sock, error, calls, robbed>>

\* bind() and listen() of a server, bind_ip_address() of a client with an interface.
Bind(t) ==
    /\ at[t] = "bind" /\ table[sock[t]] # NoOne
    /\ Goes(t, IF role[t] = "server" THEN "idle" ELSE "connect")
    /\ UNCHANGED <<table, role, rp, sock, error, calls, robbed>>

BindFails(t) ==
    /\ at[t] = "bind"
    /\ Goes(t, "close")
    /\ error' = [error EXCEPT ![t] = IF role[t] = "server" THEN @ ELSE "BindIPAddress"]
    /\ UNCHANGED <<table, role, rp, sock, calls, robbed>>

\* connect() is done at once, or at work, or fails.
Connect(t) ==
    /\ at[t] = "connect"
    /\ \/ table[sock[t]] # NoOne /\ \E to \in {"idle", "wait"} : Goes(t, to)
       \/ Goes(t, "failed")
    /\ error' = [error EXCEPT ![t] = IF at'[t] = "idle" THEN "Success" ELSE @]
    /\ UNCHANGED <<table, role, rp, sock, calls, robbed>>

\* wait_until_socket_is_ready(): connected, or an error, or the time is up.
Wait(t) ==
    /\ at[t] = "wait"
    /\ (Goes(t, "idle") /\ table[sock[t]] # NoOne) \/ Goes(t, "failed")
    /\ error' = [error EXCEPT ![t] = IF at'[t] = "idle" THEN "Success" ELSE @]
    /\ UNCHANGED <<table, role, rp, sock, calls, robbed>>

\* The close in create_client_socket() for a connect that failed.
ConnectFails(t) ==
    /\ at[t] = "failed"
    /\ Goes(t, "close")
    /\ error' = [error EXCEPT ![t] = "Connection"]
    /\ Closes(t, sock[t])
    /\ UNCHANGED <<role, rp, sock, calls>>

\* Mutant: the socket of an address that did not do is left open.
TryNextOpen(t) ==
    /\ at[t] = "close"
    /\ NextAddress(t)
    /\ sock' = [sock EXCEPT ![t] = INVALID]
    /\ UNCHANGED <<table, role, error, calls, robbed>>

\* The close in create_socket() for every step that failed, and the next address.
TryNext(t) ==
    /\ at[t] = "close"
    /\ UNCHANGED error
    /\ Closes(t, sock[t])
    /\ NextAddress(t)
    /\ sock' = [sock EXCEPT ![t] = INVALID]
    /\ UNCHANGED <<role, calls>>

NoSocket(t) ==
    /\ at[t] = "next" /\ rp[t] = Addresses
    /\ Goes(t, "idle")
    /\ sock' = [sock EXCEPT ![t] = INVALID]
    /\ error' = [error EXCEPT ![t] =
                    IF role[t] # "server" /\ @ = "Success" THEN "Connection" ELSE @]
    /\ UNCHANGED <<table, role, rp, calls, robbed>>

Step(t) ==
    \/ CreateSocket(t) \/ SetFlags(t) \/ Bind(t) \/ BindFails(t) \/ Connect(t) \/ Wait(t)
    \/ ConnectFails(t) \/ TryNext(t) \/ NoSocket(t)

Next ==
    \/ ProgramOpens \/ \E f \in Descriptor : ProgramCloses(f)
    \/ \E t \in Thread : Step(t) \/ CloseSocket(t) \/ \E r \in Roles : Call(t, r)

Spec == Init /\ [][Next]_vars

(* A thread in a call runs on: connect() and the wait have a time limit.       *)
FairSpec == Spec /\ \A t \in Thread : WF_vars(Step(t))
-----------------------------------------------------------------------------
\* Nobody closes a descriptor that is another's by now: "it is still a bug since rarely
\* the OS may reassign the socket id to be used for a new socket" (httplib.h, close_socket).
NothingRobbed == robbed = <<>>

\* The one step that may begin to do so is the second close of a socket whose connect has
\* failed: create_client_socket() has closed it, and create_socket() closes it again.
OnlyClosedTwice == TypeOK /\ (robbed # <<>> => robbed[1] # "server" /\ robbed[2] = "Connection")

\* Outside of a call a thread has the descriptor that it was given and no other, and a
\* client that was given none is told of an error: no address that fails leaves an open
\* socket behind (create_socket).
NoneLeft ==
    \A t \in Thread : at[t] = "idle" /\ robbed = <<>> =>
        /\ {f \in Descriptor : table[f] = t} = {sock[t]} \ {INVALID}
        /\ calls[t] > 0 /\ rp[t] = Addresses /\ role[t] # "server" => error[t] # "Success"

\* A thread has the descriptor that it was given and no other, and only the second close
\* of a socket whose connect has failed can close another's (create_socket).
SocketsSound == OnlyClosedTwice /\ NoneLeft

\* Every call returns, whatever the addresses do.
CallsReturn == \A t \in Thread : at[t] # "idle" ~> at[t] = "idle"
=============================================================================
