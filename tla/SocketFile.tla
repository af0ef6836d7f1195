------------------------------- MODULE SocketFile -------------------------------
(***************************************************************************)
(* The socket file of src/sockets.c, between the servers that are started  *)
(* on one path, the kernel, and the user who deletes the file.             *)
(*                                                                         *)
(* A file at the path belongs to the server whose bind() made it, for as   *)
(* long as it exists: a server that is killed leaves it behind, and        *)
(* unlink() removes whatever file is there.                                *)
(***************************************************************************)
CONSTANTS
  Servers,      \* tailserver processes on the path
  Clients,      \* tailclient processes that use it
  NoFile        \* nothing is at the path

ASSUME NoFileAssumption == NoFile \notin Servers

VARIABLES
  file,     \* whose socket is at the path
  pc,       \* where each server is in sockets_init and sockets_final
  deleted,  \* history: servers whose file the user deleted while they used it, or
            \* that lost it to the end of such a server
  conn,     \* the server each client is connected to, or NoFile
  killed    \* history: servers that were killed since their last bind

vars == <<file, pc, deleted, conn, killed>>

Init ==
  /\ file = NoFile
  /\ pc = [s \in Servers |-> "off"]
  /\ conn = [c \in Clients |-> NoFile]
  /\ deleted = {} /\ killed = {}

Idle == {"off", "failed"}

Goes(s, from, to) == pc[s] \in from /\ pc' = [pc EXCEPT ![s] = to]

\* The kernel closes the connections of s.
Disconnect(s) == conn' = [c \in Clients |-> IF conn[c] = s THEN NoFile ELSE conn[c]]

\* Mutant: an old file is removed before bind (the line that is commented out).
Bind_UnlinksFirst(s) ==
  /\ Goes(s, Idle, "bound")
  /\ file' = s
  /\ deleted' = deleted \ {s} /\ killed' = killed \ {s}
  /\ UNCHANGED conn

\* sockets_init: bind() makes the file, unless there is one.
Bind(s) ==
  /\ Goes(s, Idle, "bound")
  /\ file = NoFile
  /\ file' = s
  /\ deleted' = deleted \ {s} /\ killed' = killed \ {s}
  /\ UNCHANGED conn

\* Mutant: sockets_final is called, as it is when listen() fails.
BindFails_Unlinks(s) ==
  /\ Goes(s, {"off"}, "failed")
  /\ file # NoFile /\ file' = NoFile
  /\ UNCHANGED <<deleted, conn, killed>>

\* bind() says that the address is in use: the program ends, and the file stays.
BindFails(s) ==
  /\ Goes(s, {"off"}, "failed")
  /\ file # NoFile
  /\ UNCHANGED <<file, deleted, conn, killed>>

\* listen(); if it fails sockets_final takes the file away again.
Listen(s) ==
  /\ Goes(s, {"bound"}, "serving") \/ Goes(s, {"bound"}, "closed")
  /\ UNCHANGED <<file, deleted, conn, killed>>

\* sockets_final: shutdown() and close() ...
Close(s) ==
  /\ Goes(s, {"serving"}, "closed")
  /\ UNCHANGED <<file, deleted, conn, killed>>

\* Mutant: it is left to the next server to find the file.
Unlink_Forgotten(s) ==
  /\ Goes(s, {"closed"}, "unlinked")
  /\ UNCHANGED <<file, deleted, conn, killed>>

\* ... unlink(), of what is at the path by now ...
Unlink(s) ==
  /\ Goes(s, {"closed"}, "unlinked")
  /\ file' = NoFile
  /\ deleted' = IF s \in deleted THEN deleted \cup ({file} \ {s, NoFile}) ELSE deleted
  /\ UNCHANGED <<conn, killed>>

\* ... and tailer_final for every tailer.
FinalTailers(s) ==
  /\ Goes(s, {"unlinked"}, "off")
  /\ Disconnect(s)
  /\ UNCHANGED <<file, deleted, killed>>

sockets_final(s) == Close(s) \/ Unlink(s) \/ FinalTailers(s)

\* The process is killed. What it has bound stays.
Kill(s) ==
  /\ killed' = killed \cup {s}
  /\ pc[s] \notin Idle /\ pc' = [pc EXCEPT ![s] = "off"]
  /\ Disconnect(s)
  /\ UNCHANGED <<file, deleted>>

\* "If not, try deleting the socket file and run again" (sockets.c:386).
UserDeletes ==
  /\ file # NoFile
  /\ file' = NoFile
  /\ deleted' = deleted \cup {s \in {file} : pc[s] \notin Idle}
  /\ UNCHANGED <<pc, conn, killed>>

\* A client reaches the server whose file is there, if it listens.
Connect(c) ==
  /\ conn[c] = NoFile
  /\ file # NoFile /\ pc[file] = "serving"
  /\ conn' = [conn EXCEPT ![c] = file]
  /\ UNCHANGED <<file, pc, deleted, killed>>

ClientLeaves(c) ==
  /\ conn[c] # NoFile /\ conn' = [conn EXCEPT ![c] = NoFile]
  /\ UNCHANGED <<file, pc, deleted, killed>>

Next ==
  \/ \E s \in Servers : Bind(s) \/ BindFails(s) \/ Listen(s) \/ sockets_final(s) \/ Kill(s)
  \/ UserDeletes
  \/ \E c \in Clients : Connect(c) \/ ClientLeaves(c)

Spec == Init /\ [][Next]_vars

\* A server that is told to end does so.
FairSpec == Spec /\ \A s \in Servers : WF_vars(Unlink(s))
---------------------------------------------------------------------------------
\* A server that serves can be reached at the path: neither another server that starts
\* nor one that ends takes its file away (sockets.c:375: "what if some other tailserver
\* has created and still uses that file?"), but for one thing: once the user has deleted
\* the file of a running server, the end of that one unlinks the file of the next.
StaysReachable ==
  \A s \in Servers : pc[s] = "serving" /\ s \notin deleted => file = s

\* Between bind() and unlink() in sockets_final.
HasBound(s) == pc[s] \in {"bound", "serving", "closed"}

\* What the comment at the unlink() that is commented out asks (sockets.c:375): a step of
\* one server, be it its start, the start that fails, its end or its death, takes the file
\* of another away, one that has bound it and does not listen yet or is about to unlink it
\* included, only if its own file was deleted before, by the user or by the like.
TakenOnceDeleted ==
  [][\A s, t \in Servers :
       s # t /\ file = t /\ file' # t /\ HasBound(t) /\ pc'[s] # pc[s] => s \in deleted]_vars

\* A server that ends takes its file with it, unless it is killed.
LeavesNoFile ==
  \A s \in Servers :
    pc[s] = "closed" ~> file # s \/ s \in killed
=================================================================================
