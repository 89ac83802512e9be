------------------------------ MODULE MCWorker ------------------------------
(***************************************************************************)
(* What the servers and one worker do together, for TLC: each behaviour is *)
(* one of one part (focus), the others staying as they were initialised.   *)
(*   "registry"  the worker's tunnel and its reconnects  (TunnelRegistry)  *)
(*   "session"   one request through the tunnel          (TunnelSession)   *)
(*   "files"     the files of one of its instances       (ModelFiles)      *)
(***************************************************************************)
EXTENDS TunnelRegistry

VARIABLES
    focus,
    conn, answer, table, queue, up, down, sent, got, ended, closed, chan, ws, expired,
    inst, file, initEvent, fileEvents, workEvents, sync, task, abandoned, overtaken, faults

Session == INSTANCE TunnelSession WITH MaxChunks <- 1

Downloads == INSTANCE ModelFiles
    WITH Files <- {"main", "sub"}, Sub <- {"sub"}, MaxFaults <- 1

session == <<conn, answer, table, queue, up, down, sent, got, ended, closed, chan, ws,
             expired>>
downloads == <<inst, file, initEvent, fileEvents, workEvents, sync, task, abandoned,
               overtaken, faults>>

MCInit ==
    /\ focus \in {"registry", "session", "files"}
    /\ Init /\ Session!Init /\ Downloads!Init

MCNext ==
    /\ UNCHANGED focus
    /\ \/ focus = "registry" /\ Next /\ UNCHANGED <<session, downloads>>
       \/ focus = "session" /\ Session!Next /\ UNCHANGED <<tvars, downloads>>
       \/ focus = "files" /\ Downloads!Next /\ UNCHANGED <<tvars, session>>

(***************************************************************************)
(* Each coroutine of a session goes on when it can, as do the two          *)
(* controllers, the worker's watch and its downloads.                      *)
(***************************************************************************)
MCSpec ==
    /\ MCInit /\ [][MCNext]_<<tvars, session, downloads, focus>>
    /\ WF_session(focus = "session" /\ Session!Handshake)
    /\ WF_session(focus = "session" /\ Session!Dispatch)
    /\ WF_session(focus = "session" /\ Session!Finish)
    /\ \A s \in Session!Sides : /\ WF_session(focus = "session" /\ Session!Deliver(s))
                                /\ WF_session(focus = "session" /\ Session!EndUp(s))
    /\ WF_downloads(focus = "files" /\ Downloads!InstanceController)
    /\ WF_downloads(focus = "files" /\ Downloads!FileController)
    /\ \A f \in {"main", "sub"} :
          /\ WF_downloads(focus = "files" /\ Downloads!HandleFileEvent(f))
          /\ WF_downloads(focus = "files" /\ Downloads!Download(f))
          /\ WF_downloads(focus = "files" /\ Downloads!CheckCompletion(f))

(***************************************************************************)
(* Chunks reach a stream in order, and none that was sent is missing when  *)
(* its side stops delivering, unless the websocket or a read gave up.      *)
(***************************************************************************)
NothingTruncated == Session!NothingTruncated

(***************************************************************************)
(* A session that ends on one side, or whose websocket is lost, ends at    *)
(* the worker and leaves the tables, but for entries of refused requests.  *)
(***************************************************************************)
SessionsEnd == focus = "session" => Session!SessionsEnd

(***************************************************************************)
(* When nothing is left to do, an instance that was started has all its    *)
(* files READY, but for given-up downloads and overtaken writes.           *)
(***************************************************************************)
SettledFiles == Downloads!SettledFiles

(***************************************************************************)
(* An instance that waits for its files starts or fails in the end, with   *)
(* the same exceptions.                                                    *)
(***************************************************************************)
DownloadsLeadToStart == focus = "files" => Downloads!DownloadsLeadToStart
=============================================================================
