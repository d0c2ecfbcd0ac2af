------------------------------- MODULE Console ------------------------------
(***************************************************************************)
(* Interactive consoles: the panel's proxy (ws_console_proxy,              *)
(* src/panel/main.py) between the browser's websocket and the daemon's,    *)
(* and the daemon's handler (handleConsoleWS, src/daemon/main.go) between  *)
(* that and a shell in the container.                                      *)
(*                                                                         *)
(* The handler reads from the websocket; a goroutine of its own, the       *)
(* reader, copies the shell's output.  Both close doneChan when they end,  *)
(* the handler without looking, the reader after a look that is not atomic *)
(* with the close.  Closing a closed channel panics: the HTTP server       *)
(* recovers the handler, nothing recovers the reader, and the daemon       *)
(* process dies with every console it serves.                              *)
(***************************************************************************)
EXTENDS Naturals, FiniteSets

CONSTANTS Session, Pool    \* Pool: database connections of a worker process

ASSUME PoolAssumption == Pool \in Nat \ {0}

VARIABLES
  browser,   \* is the browser's websocket open?
  panel,     \* where ws_console_proxy is
  link,      \* the websocket between the panel and the daemon
  main,      \* where handleConsoleWS is
  reader,    \* where its goroutine is
  doneChan,  \* has doneChan been closed?
  attached,  \* is resp, the connection to the exec, open?
  shell      \* the shell in the container

consoleVars == <<browser, panel, link, main, reader, doneChan, attached, shell>>
daemon == <<main, reader, doneChan, attached>>

ConsoleInit ==
  /\ browser = [s \in Session |-> FALSE]
  /\ panel = [s \in Session |-> "idle"]
  /\ link = [s \in Session |-> "none"]
  /\ main = [s \in Session |-> "none"]
  /\ reader = [s \in Session |-> "none"]
  /\ doneChan = [s \in Session |-> FALSE]
  /\ attached = [s \in Session |-> FALSE]
  /\ shell = [s \in Session |-> "none"]

-----------------------------------------------------------------------------
(* The panel.                                                              *)

Panel(s, from, to) == panel[s] = from /\ panel' = [panel EXCEPT ![s] = to]

\* Consoles that hold a database connection: they do until they end.
Holding == {s \in Session : panel[s] \in {"dial", "forward", "closing"}}

\* Mutant: no connection of the pool is needed.
MutantDial(s) ==
  /\ Panel(s, "idle", "dial")
  /\ browser' = [browser EXCEPT ![s] = TRUE]
  /\ link' = [link EXCEPT ![s] = "dialing"]
  /\ main' = [main EXCEPT ![s] = "inspect"]
  /\ UNCHANGED <<reader, doneChan, attached, shell>>

\* The token and the access are in order; ws_lib.connect.
Dial(s) ==
  /\ Cardinality(Holding) < Pool
  /\ Panel(s, "idle", "dial")
  /\ browser' = [browser EXCEPT ![s] = TRUE]
  /\ link' = [link EXCEPT ![s] = "dialing"]
  /\ main' = [main EXCEPT ![s] = "inspect"]
  /\ UNCHANGED <<reader, doneChan, attached, shell>>

\* They are not, or no connection came free in thirty seconds.
Refuse(s) ==
  /\ Panel(s, "idle", "done")
  /\ UNCHANGED <<browser, link, daemon, shell>>

\* The daemon answered the handshake.
Dialed(s) ==
  /\ link[s] = "open"
  /\ Panel(s, "dial", "forward")
  /\ UNCHANGED <<browser, link, daemon, shell>>

\* It refused it, or five seconds passed.
DialFails(s) ==
  /\ Panel(s, "dial", "done")
  /\ link' = [link EXCEPT ![s] = "closed"]
  /\ browser' = [browser EXCEPT ![s] = FALSE]
  /\ UNCHANGED <<daemon, shell>>

\* Mutant: asyncio.wait for both directions to end, not for the first.
MutantForwardEnds(s) ==
  /\ ~browser[s]
  /\ Panel(s, "forward", "closing")
  /\ UNCHANGED <<browser, link, daemon, shell>>

\* One of the two directions ends; the other one is cancelled.
ForwardEnds(s) ==
  /\ ~browser[s] \/ link[s] = "closed"
  /\ Panel(s, "forward", "closing")
  /\ UNCHANGED <<browser, link, daemon, shell>>

\* daemon_ws.close(), db.close(), and the server closes the browser's side.
Finish(s) ==
  /\ Panel(s, "closing", "done")
  /\ link' = [link EXCEPT ![s] = "closed"]
  /\ browser' = [browser EXCEPT ![s] = FALSE]
  /\ UNCHANGED <<daemon, shell>>

-----------------------------------------------------------------------------
(* handleConsoleWS                                                         *)

Main(s, from, to) == main[s] = from /\ main' = [main EXCEPT ![s] = to]

\* No client, no such container, or no start or no exec: an HTTP error.
AttachFails(s) ==
  /\ Main(s, "inspect", "done")
  /\ link' = [link EXCEPT ![s] = "closed"]
  /\ UNCHANGED <<browser, panel, reader, doneChan, attached, shell>>

Attach(s) ==
  /\ Main(s, "inspect", "upgrade")
  /\ attached' = [attached EXCEPT ![s] = TRUE]
  /\ shell' = [shell EXCEPT ![s] = "running"]
  /\ UNCHANGED <<browser, panel, link, reader, doneChan>>

\* The upgrade; to a panel that has given up it may seem to succeed.
Upgrade(s) ==
  /\ Main(s, "upgrade", "serve")
  /\ link' = [link EXCEPT ![s] = IF @ = "dialing" THEN "open" ELSE @]
  /\ reader' = [reader EXCEPT ![s] = "read"]
  /\ UNCHANGED <<browser, panel, doneChan, attached, shell>>

UpgradeFails(s) ==
  /\ Main(s, "upgrade", "done")
  /\ link' = [link EXCEPT ![s] = "closed"]
  /\ attached' = [attached EXCEPT ![s] = FALSE]
  /\ UNCHANGED <<browser, panel, reader, doneChan, shell>>

\* conn.ReadMessage returns an error.  That the shell does not take the input
\* is none: its break leaves the switch, not the loop.
ReadMessageFails(s) ==
  /\ link[s] = "closed"
  /\ Main(s, "serve", "return")
  /\ UNCHANGED <<browser, panel, link, reader, doneChan, attached, shell>>

\* The deferred close(doneChan); if it panics the other defers still run.
CloseDone(s) ==
  /\ Main(s, "return", "release")
  /\ doneChan' = [doneChan EXCEPT ![s] = TRUE]
  /\ UNCHANGED <<browser, panel, link, reader, attached, shell>>

\* Mutant: no defer resp.Close().
MutantRelease(s) ==
  /\ Main(s, "release", "done")
  /\ link' = [link EXCEPT ![s] = "closed"]
  /\ UNCHANGED <<browser, panel, reader, doneChan, attached, shell>>

\* conn.Close(), resp.Close()
Release(s) ==
  /\ Main(s, "release", "done")
  /\ link' = [link EXCEPT ![s] = "closed"]
  /\ attached' = [attached EXCEPT ![s] = FALSE]
  /\ UNCHANGED <<browser, panel, reader, doneChan, shell>>

-----------------------------------------------------------------------------
(* The reader.                                                             *)

Reader(s, from, to) == reader[s] = from /\ reader' = [reader EXCEPT ![s] = to]

Output(s) ==
  /\ attached[s] /\ shell[s] = "running"
  /\ Reader(s, "read", "send")
  /\ UNCHANGED <<browser, panel, link, main, doneChan, attached, shell>>

\* A write to a closed connection need not fail at once.
Send(s) ==
  /\ \/ Reader(s, "send", "read")
     \/ link[s] = "closed" /\ Reader(s, "send", "select")
  /\ UNCHANGED <<browser, panel, link, main, doneChan, attached, shell>>

ReadFails(s) ==
  /\ ~attached[s] \/ shell[s] = "ended"
  /\ Reader(s, "read", "select")
  /\ UNCHANGED <<browser, panel, link, main, doneChan, attached, shell>>

\* The deferred select: closed already, or go on to close it.
Select(s) ==
  /\ Reader(s, "select", IF doneChan[s] THEN "done" ELSE "close")
  /\ UNCHANGED <<browser, panel, link, main, doneChan, attached, shell>>

\* The daemon process ends and is started again.
Die ==
  /\ main' = [s \in Session |-> IF main[s] = "none" THEN "none" ELSE "done"]
  /\ reader' = [s \in Session |-> IF reader[s] = "none" THEN "none" ELSE "done"]
  /\ attached' = [s \in Session |-> FALSE]
  /\ link' = [s \in Session |-> IF link[s] = "none" THEN "none" ELSE "closed"]
  /\ UNCHANGED doneChan

ReaderCloses(s) ==
  /\ \/ /\ ~doneChan[s]
        /\ Reader(s, "close", "done")
        /\ doneChan' = [doneChan EXCEPT ![s] = TRUE]
        /\ UNCHANGED <<main, attached, link>>
     \/ doneChan[s] /\ reader[s] = "close" /\ Die
  /\ UNCHANGED <<browser, panel, shell>>

-----------------------------------------------------------------------------
(* Browsers, shells.                                                       *)

Leave(s) ==
  /\ browser[s]
  /\ browser' = [browser EXCEPT ![s] = FALSE]
  /\ UNCHANGED <<panel, link, daemon, shell>>

ShellEnds(s) ==
  /\ shell[s] = "running"
  /\ shell' = [shell EXCEPT ![s] = "ended"]
  /\ UNCHANGED <<browser, panel, link, daemon>>

-----------------------------------------------------------------------------

Proxy(s) == Dialed(s) \/ DialFails(s) \/ ForwardEnds(s) \/ Finish(s)

HandleConsoleWS(s) ==
  \/ AttachFails(s) \/ Attach(s) \/ Upgrade(s) \/ UpgradeFails(s)
  \/ ReadMessageFails(s) \/ CloseDone(s) \/ Release(s)

CopyOutput(s) == Output(s) \/ Send(s) \/ ReadFails(s) \/ Select(s) \/ ReaderCloses(s)

\* Every console is over.
ConsoleQuiet == (\A s \in Session : panel[s] = "done") /\ UNCHANGED consoleVars

ConsoleNext ==
  \/ \E s \in Session :
       \/ Dial(s) \/ Refuse(s) \/ Proxy(s) \/ HandleConsoleWS(s) \/ CopyOutput(s)
       \/ Leave(s) \/ ShellEnds(s)
  \/ ConsoleQuiet

ConsoleSpec == ConsoleInit /\ [][ConsoleNext]_consoleVars

\* Coroutines and goroutines that can run do, and calls return; no browser
\* has to leave and no shell has to end or to say anything.
ConsoleFairSpec ==
  /\ ConsoleSpec
  /\ \A s \in Session :
       /\ WF_consoleVars(Proxy(s)) /\ WF_consoleVars(HandleConsoleWS(s))
       /\ WF_consoleVars(Send(s) \/ ReadFails(s) \/ Select(s) \/ ReaderCloses(s))

-----------------------------------------------------------------------------
(* Properties.                                                             *)

ConsoleTypeOK ==
  /\ browser \in [Session -> BOOLEAN]
  /\ panel \in [Session -> {"idle", "dial", "forward", "closing", "done"}]
  /\ link \in [Session -> {"none", "dialing", "open", "closed"}]
  /\ main \in [Session -> {"none", "inspect", "upgrade", "serve", "return",
                           "release", "done"}]
  /\ reader \in [Session -> {"none", "read", "send", "select", "close", "done"}]
  /\ doneChan \in [Session -> BOOLEAN]
  /\ attached \in [Session -> BOOLEAN]
  /\ shell \in [Session -> {"none", "running", "ended"}]
  /\ Cardinality(Holding) <= Pool

\* However a console ends, panics and a dying daemon included, nothing that the
\* panel or the daemon holds for it stays: no database connection, no handler,
\* no goroutine, no connection to the exec.  The shell itself is Docker's, and
\* may outlive its console.
NothingLeaks ==
  \A s \in Session :
    (panel[s] = "forward" /\ ~browser[s])
      ~> /\ panel[s] = "done" /\ main[s] = "done" /\ reader[s] = "done"
         /\ ~attached[s]

\* A console whose handler has ended, be it because another one killed the
\* daemon, does not stay open in the browser.
EndReachesBrowser == \A s \in Session : main[s] = "done" ~> ~browser[s]

=============================================================================
