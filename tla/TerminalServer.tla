--------------------------- MODULE TerminalServer ---------------------------
(***************************************************************************)
(* internal/workspace: the relay between a WebSocket and a login shell.    *)
(* Each connection has a handler and, while it relays, three goroutines:   *)
(* output (shell to client), pings, and input (client to shell).  The      *)
(* handler returns when the first two have ended; it does not wait for     *)
(* the input, whose read error reaches the output by closing the terminal. *)
(*                                                                         *)
(* A shell that ends stays a zombie, since the handler never waits for it, *)
(* and keeps its process id.  A job it has started may outlive it and keep *)
(* the terminal open; one job stands for all there are.  "due" says that   *)
(* 60 s have passed since the last pong was handled.  Bytes, resizes,      *)
(* /health, the static files, the redirect to another machine and          *)
(* analytics are left out: they change nothing of this.  NewSession cannot *)
(* fail with a constant id.                                                *)
(***************************************************************************)
EXTENDS Naturals, FiniteSets

CONSTANTS Conns,  \* connections over the life of the server
          Pids,   \* bound: process ids left for shells
          NoPid

ASSUME NoPidIsNoPid == NoPid \notin Pids

VARIABLES
  up,      \* the server process
  hpc,     \* where each connection's handler is
  sock,    \* the server's end of the connection; "broken" refuses writes
  peer,    \* the client's end of it
  due,     \* the read deadline has passed
  shell,   \* the shell process
  pid,     \* its process id
  job,     \* what it started holds the terminal: in its group, or apart
  ptmx,    \* the server's end of the terminal
  out,     \* the goroutine that copies shell output, and closes done
  pinger,  \* the goroutine that sends pings, and closes pingDone
  inp      \* the goroutine that copies client input

procs == <<shell, pid, job>>
relay == <<procs, ptmx, out, pinger, inp>>
vars  == <<up, hpc, sock, peer, due, relay>>

Handlers == {"idle", "accepted", "upgraded", "relay", "pings", "returned",
             "failed", "refused", "lost"}

\* A relaying connection has all its parts, and one that is not has none.
TypeOK ==
  /\ up \in {"serving", "draining", "exited"}
  /\ hpc \in [Conns -> Handlers]
  /\ sock \in [Conns -> {"none", "open", "broken", "closed"}]
  /\ peer \in [Conns -> {"none", "live", "stalled", "gone"}]
  /\ due \in [Conns -> BOOLEAN]
  /\ shell \in [Conns -> {"none", "running", "exited", "killed"}]
  /\ pid \in [Conns -> Pids \cup {NoPid}]
  /\ job \in [Conns -> {"none", "group", "apart"}]
  /\ ptmx \in [Conns -> {"none", "open", "closed"}]
  /\ out \in [Conns -> {"none", "read", "write", "ended"}]
  /\ pinger \in [Conns -> {"none", "idle", "write", "ended"}]
  /\ inp \in [Conns -> {"none", "read", "write", "ended"}]
  /\ \A c \in Conns :
       /\ pid[c] # NoPid <=> shell[c] # "none"
       /\ job[c] # "none" => shell[c] # "none"
       /\ hpc[c] = "relay" => sock[c] \in {"open", "broken"} /\ shell[c] # "none"
       /\ hpc[c] \in {"idle", "accepted", "upgraded", "failed", "refused"}
            => /\ <<shell[c], ptmx[c]>> = <<"none", "none">>
               /\ <<out[c], pinger[c], inp[c]>> = <<"none", "none", "none">>
       /\ hpc[c] \in {"returned", "failed", "refused", "lost"}
            => sock[c] = "closed" /\ ptmx[c] # "open"
       /\ hpc[c] \in {"pings", "returned"} => out[c] = "ended"

Init ==
  /\ up = "serving"
  /\ hpc = [c \in Conns |-> "idle"]
  /\ sock = [c \in Conns |-> "none"]
  /\ peer = [c \in Conns |-> "none"]
  /\ due = [c \in Conns |-> FALSE]
  /\ shell = [c \in Conns |-> "none"]
  /\ pid = [c \in Conns |-> NoPid]
  /\ job = [c \in Conns |-> "none"]
  /\ ptmx = [c \in Conns |-> "none"]
  /\ out = [c \in Conns |-> "none"]
  /\ pinger = [c \in Conns |-> "none"]
  /\ inp = [c \in Conns |-> "none"]

Hangup(c) == ptmx' = [ptmx EXCEPT ![c] = "closed"]

\* The kernel fails reads and writes of the server's end once no process
\* has the other end open: the shell, or a job that may outlive it.
Held(c) == shell[c] = "running" \/ job[c] # "none"

ShellGone(c) == shell[c] \in {"exited", "killed"}

-----------------------------------------------------------------------------
(* The network and the client.  A stalled client neither reads nor answers,*)
(* and its buffers may still take some writes.                             *)

Open(c) ==
  /\ up = "serving"
  /\ hpc[c] = "idle"
  /\ hpc' = [hpc EXCEPT ![c] = "accepted"]
  /\ sock' = [sock EXCEPT ![c] = "open"]
  /\ peer' = [peer EXCEPT ![c] = "live"]
  /\ UNCHANGED <<up, due, relay>>

Stall(c) ==
  /\ peer[c] = "live"
  /\ peer' = [peer EXCEPT ![c] = "stalled"]
  /\ UNCHANGED <<up, hpc, sock, due, relay>>

Resume(c) ==
  /\ peer[c] = "stalled"
  /\ peer' = [peer EXCEPT ![c] = "live"]
  /\ UNCHANGED <<up, hpc, sock, due, relay>>

Leaves(c) == peer' = [peer EXCEPT ![c] = "gone"]

Leave(c) ==
  /\ peer[c] \in {"live", "stalled"}
  /\ Leaves(c)
  /\ UNCHANGED <<up, hpc, sock, due, relay>>

-----------------------------------------------------------------------------
(* The handler.                                                            *)

\* A wrong token is answered 401; a failed upgrade ends the handler.
Refuse(c) ==
  /\ up # "exited"
  /\ hpc[c] = "accepted"
  /\ hpc' = [hpc EXCEPT ![c] = "refused"]
  /\ sock' = [sock EXCEPT ![c] = "closed"]
  /\ UNCHANGED <<up, peer, due, relay>>

Upgrade(c) ==
  /\ up # "exited"
  /\ hpc[c] = "accepted"
  /\ peer[c] # "gone"
  /\ hpc' = [hpc EXCEPT ![c] = "upgraded"]
  /\ UNCHANGED <<up, sock, peer, due, relay>>

FreePidsReaped ==  \* mutant: a cmd.Wait would free the id when the shell ends
  {p \in Pids : \A d \in Conns : pid[d] = p => shell[d] # "running"}

\* The kernel gives a new process an id no process has, zombies included.
FreePids == {p \in Pids : \A d \in Conns : pid[d] # p}

Start(c) ==
  /\ up # "exited"
  /\ hpc[c] = "upgraded"
  /\ \E p \in FreePids : pid' = [pid EXCEPT ![c] = p]
  /\ hpc' = [hpc EXCEPT ![c] = "relay"]
  /\ shell' = [shell EXCEPT ![c] = "running"]
  /\ ptmx' = [ptmx EXCEPT ![c] = "open"]
  /\ out' = [out EXCEPT ![c] = "read"]
  /\ pinger' = [pinger EXCEPT ![c] = "idle"]
  /\ inp' = [inp EXCEPT ![c] = "read"]
  /\ UNCHANGED <<up, sock, peer, due, job>>

\* pty.Start fails; the client is told and the connection closed.
StartFails(c) ==
  /\ up # "exited"
  /\ hpc[c] = "upgraded"
  /\ hpc' = [hpc EXCEPT ![c] = "failed"]
  /\ sock' = [sock EXCEPT ![c] = "closed"]
  /\ UNCHANGED <<up, peer, due, relay>>

RelayDone(c) ==
  /\ hpc[c] = "relay"
  /\ out[c] = "ended"
  /\ hpc' = [hpc EXCEPT ![c] = "pings"]
  /\ UNCHANGED <<up, sock, peer, due, relay>>

KillGroupNot(p) == UNCHANGED <<shell, job>>  \* mutant: only ptmx.Close()

\* SIGKILL goes to the group of whatever now has the id the shell was
\* started with.  A job the shell has put into a group of its own, as a
\* login shell on a terminal does, is not in it.
KillGroup(p) ==
  /\ shell' = [d \in Conns |-> IF pid[d] = p /\ shell[d] = "running"
                               THEN "killed" ELSE shell[d]]
  /\ job' = [d \in Conns |-> IF pid[d] = p /\ job[d] = "group"
                             THEN "none" ELSE job[d]]

Return(c) ==
  /\ hpc[c] = "pings"
  /\ pinger[c] = "ended"
  /\ hpc' = [hpc EXCEPT ![c] = "returned"]
  /\ KillGroup(pid[c])
  /\ Hangup(c)
  /\ sock' = [sock EXCEPT ![c] = "closed"]
  /\ UNCHANGED <<up, peer, due, pid, out, pinger, inp>>

-----------------------------------------------------------------------------
(* The output goroutine.                                                   *)

\* What was written before the last holder ended is still read.
OutReads(c) ==
  /\ out[c] = "read"
  /\ ptmx[c] = "open"
  /\ out' = [out EXCEPT ![c] = "write"]
  /\ UNCHANGED <<up, hpc, sock, peer, due, procs, ptmx, pinger, inp>>

OutReadFails(c) ==
  /\ out[c] = "read"
  /\ ptmx[c] = "closed" \/ ~Held(c)
  /\ out' = [out EXCEPT ![c] = "ended"]
  /\ UNCHANGED <<up, hpc, sock, peer, due, procs, ptmx, pinger, inp>>

OutWrites(c) ==
  /\ out[c] = "write"
  /\ sock[c] = "open"
  /\ out' = [out EXCEPT ![c] = "read"]
  /\ UNCHANGED <<up, hpc, sock, peer, due, procs, ptmx, pinger, inp>>

OutWriteFails(c) ==
  /\ out[c] = "write"
  /\ sock[c] # "open" \/ peer[c] = "gone"
  /\ out' = [out EXCEPT ![c] = "ended"]
  /\ UNCHANGED <<up, hpc, sock, peer, due, procs, ptmx, pinger, inp>>

-----------------------------------------------------------------------------
(* The ping goroutine.  The select takes either ready case.                *)

PingTick(c) ==
  /\ pinger[c] = "idle"
  /\ pinger' = [pinger EXCEPT ![c] = "write"]
  /\ UNCHANGED <<up, hpc, sock, peer, due, procs, ptmx, out, inp>>

PingWrites(c) ==
  /\ pinger[c] = "write"
  /\ sock[c] = "open"
  /\ pinger' = [pinger EXCEPT ![c] = "idle"]
  /\ UNCHANGED <<up, hpc, sock, peer, due, procs, ptmx, out, inp>>

\* After 10 s without the write lock the connection is left as it is; a
\* write that fails or times out breaks it for every later write.
PingFails(c) ==
  /\ pinger[c] = "write"
  /\ sock[c] # "open" \/ peer[c] # "live"
  /\ pinger' = [pinger EXCEPT ![c] = "ended"]
  /\ sock' = IF out[c] = "write" \/ sock[c] = "closed"
             THEN sock ELSE [sock EXCEPT ![c] = "broken"]
  /\ UNCHANGED <<up, hpc, peer, due, procs, ptmx, out, inp>>

PingEndsNever(c) ==  \* mutant: the select has no <-done
  FALSE /\ UNCHANGED vars

PingEnds(c) ==
  /\ pinger[c] = "idle"
  /\ out[c] = "ended"
  /\ pinger' = [pinger EXCEPT ![c] = "ended"]
  /\ UNCHANGED <<up, hpc, sock, peer, due, procs, ptmx, out, inp>>

-----------------------------------------------------------------------------
(* The input goroutine.                                                    *)

InReads(c) ==
  /\ inp[c] = "read"
  /\ ~due[c] /\ peer[c] = "live" /\ sock[c] # "closed"
  /\ inp' = [inp EXCEPT ![c] = "write"]
  /\ UNCHANGED <<up, hpc, sock, peer, due, procs, ptmx, out, pinger>>

InReadFailsQuietly(c) ==  \* mutant: without ptmx.Close()
  /\ inp[c] = "read"
  /\ due[c] \/ peer[c] = "gone" \/ sock[c] = "closed"
  /\ inp' = [inp EXCEPT ![c] = "ended"]
  /\ UNCHANGED <<up, hpc, sock, peer, due, procs, ptmx, out, pinger>>

InReadFails(c) ==
  /\ inp[c] = "read"
  /\ due[c] \/ peer[c] = "gone" \/ sock[c] = "closed"
  /\ inp' = [inp EXCEPT ![c] = "ended"]
  /\ Hangup(c)
  /\ UNCHANGED <<up, hpc, sock, peer, due, procs, out, pinger>>

\* The shell or a job takes the input.  A pong that waited behind it resets the
\* deadline even when it has passed.
InWrites(c) ==
  /\ inp[c] = "write"
  /\ ptmx[c] = "open" /\ Held(c)
  /\ inp' = [inp EXCEPT ![c] = "read"]
  /\ \/ due' = due
     \/ due' = [due EXCEPT ![c] = FALSE]
  /\ UNCHANGED <<up, hpc, sock, peer, procs, ptmx, out, pinger>>

InWriteFails(c) ==
  /\ inp[c] = "write"
  /\ ptmx[c] = "closed" \/ ~Held(c)
  /\ inp' = [inp EXCEPT ![c] = "ended"]
  /\ UNCHANGED <<up, hpc, sock, peer, due, procs, ptmx, out, pinger>>

\* No pong is handled for 60 s: the client does not answer, nothing pings
\* it, or the input goroutine waits for the shell.
DeadlinePasses(c) ==
  /\ ~due[c]
  /\ inp[c] \in {"read", "write"}
  /\ peer[c] # "live" \/ pinger[c] = "ended" \/ inp[c] = "write"
  /\ due' = [due EXCEPT ![c] = TRUE]
  /\ UNCHANGED <<up, hpc, sock, peer, relay>>

-----------------------------------------------------------------------------
(* The shell and the server process.                                       *)

ShellExits(c) ==
  /\ shell[c] = "running"
  /\ shell' = [shell EXCEPT ![c] = "exited"]
  /\ UNCHANGED <<up, hpc, sock, peer, due, pid, job, ptmx, out, pinger, inp>>

\* A job, in the foreground or not, in the shell's group (a script without
\* job control) or apart.
JobStarts(c) ==
  /\ shell[c] = "running" /\ ptmx[c] = "open"
  /\ job[c] = "none"
  /\ \E g \in {"group", "apart"} : job' = [job EXCEPT ![c] = g]
  /\ UNCHANGED <<up, hpc, sock, peer, due, shell, pid, ptmx, out, pinger, inp>>

\* By itself, or by a hangup of the terminal it does not ignore.
JobEnds(c) ==
  /\ job[c] # "none"
  /\ job' = [job EXCEPT ![c] = "none"]
  /\ UNCHANGED <<up, hpc, sock, peer, due, shell, pid, ptmx, out, pinger, inp>>

\* SIGTERM: Shutdown closes the listener, so Serve returns and Run with it.
Signal ==
  /\ up = "serving"
  /\ up' = "draining"
  /\ UNCHANGED <<hpc, sock, peer, due, relay>>

\* main returns without waiting for Shutdown; the machine stops with its
\* main process.
Exit ==
  /\ up = "draining"
  /\ up' = "exited"
  /\ LET cut == {c \in Conns : hpc[c] \in {"accepted", "upgraded", "relay", "pings"}}
         End(f, v) == [c \in Conns |-> IF c \in cut THEN v ELSE f[c]]
         EndSome(f, v) == [c \in Conns |-> IF f[c] # "none" THEN v ELSE f[c]]
     IN /\ hpc' = End(hpc, "lost")
        /\ sock' = End(sock, "closed")
        /\ shell' = [c \in Conns |-> IF shell[c] = "running" THEN "killed" ELSE shell[c]]
        /\ job' = [c \in Conns |-> "none"]
        /\ ptmx' = EndSome(ptmx, "closed")
        /\ out' = EndSome(out, "ended")
        /\ pinger' = EndSome(pinger, "ended")
        /\ inp' = EndSome(inp, "ended")
  /\ UNCHANGED <<peer, due, pid>>

Net(c)     == Open(c) \/ Stall(c) \/ Resume(c) \/ Leave(c)
Handler(c) == \/ Refuse(c) \/ Upgrade(c) \/ Start(c) \/ StartFails(c)
              \/ RelayDone(c) \/ Return(c)
Output(c)  == OutReads(c) \/ OutReadFails(c) \/ OutWrites(c) \/ OutWriteFails(c)
Ping(c)    == PingTick(c) \/ PingWrites(c) \/ PingFails(c) \/ PingEnds(c)
Input(c)   == \/ InReads(c) \/ InReadFails(c) \/ InWrites(c) \/ InWriteFails(c)
              \/ DeadlinePasses(c)
Process(c) == ShellExits(c) \/ JobStarts(c) \/ JobEnds(c)
Serve(c)   == Handler(c) \/ Output(c) \/ Ping(c) \/ Input(c) \/ Process(c)

\* Once the process has exited nothing is left to move.
Next ==
  \/ \E c \in Conns : Net(c) \/ Serve(c)
  \/ Signal
  \/ Exit

(* Goroutines run; the network answers or fails while the client is not    *)
(* stalled; timers expire; the select takes <-done, which stays ready,     *)
(* long before the next tick.  What is left to read when the last holder   *)
(* of the terminal ends is finite, so the read fails in the end: hence SF. *)
(* Nothing is assumed of the shell and its jobs, which may never read,     *)
(* write or exit, nor of a stalled client.                                 *)
Fairness(c) ==
  /\ WF_vars(Handler(c))
  /\ SF_vars(OutReadFails(c))
  /\ WF_vars((OutWrites(c) \/ OutWriteFails(c)) /\ peer[c] # "stalled")
  /\ WF_vars(PingWrites(c) \/ PingFails(c))
  /\ SF_vars(PingEnds(c))
  /\ WF_vars(InReadFails(c))
  /\ WF_vars(InWriteFails(c))
  /\ WF_vars(DeadlinePasses(c) /\ peer[c] = "gone")
ServerFairness == \A c \in Conns : Fairness(c)

SafeSpec == Init /\ [][Next]_vars
Spec     == SafeSpec /\ ServerFairness

-----------------------------------------------------------------------------
\* A handler that has returned leaves neither its shell nor a process of
\* the shell's group running, not even one that ignores the hangup of its
\* terminal or has outlived the shell.
NoOrphanShell ==
  \A c \in Conns :
    hpc[c] = "returned" => shell[c] # "running" /\ job[c] # "group"

\* The SIGKILL of a handler hits its own shell and no other connection's,
\* though it is sent to a number long after that process may have ended.
KillsOwnShell ==
  [][\A c \in Conns : shell[c] = "running" /\ shell'[c] = "killed"
        => hpc'[c] = "returned" \/ up' = "exited"]_vars

\* When the last process on a terminal ends, be it the shell, a background
\* job that outlived it or both with the server, handler and goroutines end
\* and the socket is closed, unless the client stalls.
ShellEndCloses ==
  \A c \in Conns :
    ShellGone(c) /\ ~Held(c) ~> sock[c] = "closed" \/ peer[c] = "stalled"

\* When the client goes, the shell ends with it, unless the input goroutine
\* is held in a write by a shell that does not read.
GoneClientEndsShell ==
  \A c \in Conns :
    peer[c] = "gone" /\ shell[c] # "none"
      ~> shell[c] # "running" \/ inp[c] = "write"
=============================================================================
