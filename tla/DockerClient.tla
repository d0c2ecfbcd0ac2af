---------------------------- MODULE DockerClient ----------------------------
(***************************************************************************)
(* The daemon's one client of the Docker engine (src/daemon/main.go):      *)
(* initDockerClient, getDockerClient, forceNegotiationClient, dockerCall,  *)
(* and the goroutine of main() that connects at start while the HTTP       *)
(* server is already answering.                                            *)
(*                                                                         *)
(* clientMutex guards the variable, not the decision: a caller reads nil,  *)
(* lets go of the lock, takes it again to connect, lets go of it and reads *)
(* the variable once more.  In between another caller may have connected,  *)
(* have lost the engine, or have switched to the fallback client.          *)
(***************************************************************************)
EXTENDS Naturals, FiniteSets

CONSTANTS
  Handler,    \* HTTP handlers: net/http recovers their panics
  Installer,  \* createAndStartServer goroutines: nothing does
  Boot,       \* the goroutine that connects at start
  Nil

Caller == Handler \cup Installer
Proc == Caller \cup {Boot}

ASSUME ProcAssumption ==
  /\ Handler \cap Installer = {} /\ Boot \notin Caller
  /\ Nil \notin Proc \cup {"unverified", "pinned", "negotiated", "fallback"}

VARIABLES
  dockerClient,  \* the variable of that name
  holder,        \* who has clientMutex for writing; reading is one step
  callerPc,      \* where each of them is
  cli,           \* the client a caller holds
  stage,         \* which of its calls this is
  early          \* history: did a call come before Boot had connected?

dockerVars == <<dockerClient, holder, callerPc, cli, stage, early>>

Client == {"unverified", "pinned", "negotiated", "fallback"}

DockerInit ==
  /\ dockerClient = Nil /\ holder = Nil
  /\ callerPc = [p \in Proc |-> IF p = Boot THEN "init" ELSE "idle"]
  /\ cli = [p \in Proc |-> Nil]
  /\ stage = [p \in Proc |-> "first"]
  /\ early = FALSE

-----------------------------------------------------------------------------

Unlocked == holder = Nil
At(p, l) == callerPc[p] = l
Go(p, l) == callerPc' = [callerPc EXCEPT ![p] = l]

\* dockerCall, or a handler's own getDockerClient: the handler of POST servers
\* gives what it got to the installer, which pulls its image with it.
Call(p) ==
  /\ p \in Caller /\ At(p, "idle")
  /\ Go(p, "get")
  /\ stage' = [stage EXCEPT ![p] = IF p \in Installer THEN "pull" ELSE "first"]
  /\ early' = (early \/ ~At(Boot, "done"))
  /\ UNCHANGED <<dockerClient, holder, cli>>

\* Mutant: the variable is read without the lock.
MutantRead(p) ==
  /\ At(p, "get")
  /\ cli' = [cli EXCEPT ![p] = dockerClient]
  /\ Go(p, IF dockerClient = Nil THEN "init" ELSE "call")
  /\ UNCHANGED <<dockerClient, holder, stage, early>>

\* getDockerClient reads the variable; nil sends it to initDockerClient.
Read(p) ==
  /\ At(p, "get") /\ Unlocked
  /\ IF dockerClient = Nil
       THEN Go(p, "init") /\ UNCHANGED cli
       ELSE Go(p, "call") /\ cli' = [cli EXCEPT ![p] = dockerClient]
  /\ UNCHANGED <<dockerClient, holder, stage, early>>

\* initDockerClient: lock, build a client, and ping the engine with it.  It
\* does not look whether another one has connected since.
Connect(p) ==
  /\ At(p, "init") /\ Unlocked
  /\ holder' = p
  /\ dockerClient' = "unverified"
  /\ Go(p, "ping")
  /\ UNCHANGED <<cli, stage, early>>

\* An installer goes on without a new client: it pulls again with the one it
\* has, and starts its container with the nil that came with the error.
Heedless(p) == stage[p] \in {"repull", "start"}

\* Mutant: getDockerClient tries until the engine answers.
MutantPingFails(p) ==
  /\ At(p, "ping")
  /\ dockerClient' = Nil /\ holder' = Nil
  /\ Go(p, IF p = Boot THEN "init" ELSE "get")
  /\ UNCHANGED <<cli, stage, early>>

\* Mutant: main() tries once.
MutantBootOnce(p) ==
  /\ At(p, "ping")
  /\ dockerClient' = Nil /\ holder' = Nil
  /\ Go(p, IF p = Boot THEN "done" ELSE IF Heedless(p) THEN "call" ELSE "idle")
  /\ UNCHANGED <<cli, stage, early>>

\* The ping fails or takes five seconds, or the pinned client cannot be built.
\* Boot sleeps and tries again; a caller has its error.
PingFails(p) ==
  /\ At(p, "ping")
  /\ dockerClient' = Nil /\ holder' = Nil
  /\ Go(p, IF p = Boot THEN "init" ELSE IF Heedless(p) THEN "call" ELSE "idle")
  /\ UNCHANGED <<cli, stage, early>>

\* Mutant: that the pinned client cannot be built is no error.
MutantVerify(p) ==
  /\ At(p, "ping")
  /\ dockerClient' \in {"pinned", "negotiated", Nil}
  /\ holder' = Nil
  /\ Go(p, IF p = Boot THEN "done" ELSE "reread")
  /\ UNCHANGED <<cli, stage, early>>

\* The engine answers: its API version is pinned unless the client has it.
Verify(p) ==
  /\ At(p, "ping")
  /\ dockerClient' \in {"pinned", "negotiated"}
  /\ holder' = Nil
  /\ Go(p, IF p = Boot THEN "done" ELSE "reread")
  /\ UNCHANGED <<cli, stage, early>>

\* getDockerClient reads the variable again, and returns it with no error.
Reread(p) ==
  /\ At(p, "reread") /\ Unlocked
  /\ cli' = [cli EXCEPT ![p] = dockerClient]
  /\ Go(p, "call")
  /\ UNCHANGED <<dockerClient, holder, stage, early>>

\* The call succeeds.  An installer that has pulled its image creates the
\* container, and one that has created it gets a client once more to start it.
Succeed(p) ==
  /\ At(p, "call") /\ cli[p] # Nil
  /\ cli' = [cli EXCEPT ![p] = Nil]
  /\ IF p \in Installer /\ stage[p] # "start"
       THEN /\ Go(p, "get")
            /\ stage' = [stage EXCEPT ![p] =
                           IF @ \in {"pull", "repull"} THEN "first" ELSE "start"]
       ELSE Go(p, "idle") /\ UNCHANGED stage
  /\ UNCHANGED <<dockerClient, holder, early>>

\* It fails, and not for its version; or for good.
Fail(p) ==
  /\ At(p, "call") /\ cli[p] # Nil
  /\ Go(p, "idle")
  /\ cli' = [cli EXCEPT ![p] = Nil]
  /\ UNCHANGED <<dockerClient, holder, stage, early>>

\* The error speaks of a version, whatever client had it: dockerCall, and the
\* second of the pull's attempts, go on to the fallback.
VersionError(p) ==
  /\ At(p, "call") /\ cli[p] # Nil /\ stage[p] \in {"first", "pull"}
  /\ Go(p, "force")
  /\ stage' = [stage EXCEPT ![p] = IF @ = "first" THEN "retry" ELSE "repull"]
  /\ cli' = [cli EXCEPT ![p] = IF stage[p] = "first" THEN Nil ELSE @]
  /\ UNCHANGED <<dockerClient, holder, early>>

\* forceNegotiationClient, which changes nothing if the fallback client cannot
\* be built.
ForceNegotiation(p) ==
  /\ At(p, "force") /\ Unlocked
  /\ dockerClient' \in {"fallback", dockerClient}
  /\ Go(p, "get")
  /\ UNCHANGED <<holder, cli, stage, early>>

\* A call through a nil client panics: net/http recovers a handler; an
\* installer takes the daemon process down, and with it everybody.
Panic(p) ==
  /\ At(p, "call") /\ cli[p] = Nil
  /\ IF p \in Handler
       THEN Go(p, "idle") /\ UNCHANGED <<dockerClient, holder, cli>>
       ELSE /\ callerPc' = [q \in Proc |-> "dead"]
            /\ cli' = [q \in Proc |-> Nil]
            /\ dockerClient' = Nil /\ holder' = Nil
  /\ UNCHANGED <<stage, early>>

-----------------------------------------------------------------------------

GetDockerClient(p) == Read(p) \/ Connect(p) \/ PingFails(p) \/ Verify(p) \/ Reread(p)
DockerCall(p) == Succeed(p) \/ Fail(p) \/ VersionError(p) \/ ForceNegotiation(p) \/ Panic(p)

\* The daemon has died: Docker restarts it as a new process.
Dead == (\A p \in Proc : At(p, "dead")) /\ UNCHANGED dockerVars

DockerNext == (\E p \in Proc : Call(p) \/ GetDockerClient(p) \/ DockerCall(p)) \/ Dead

DockerSpec == DockerInit /\ [][DockerNext]_dockerVars

\* A goroutine that can run does; an RWMutex hands itself to who waits for it;
\* a ping is answered or times out, a call is answered.  That of a pull is taken
\* to be, though nothing bounds its time: a pull that hangs holds no lock.
DockerFairSpec ==
  /\ DockerSpec
  /\ \A p \in Proc :
       /\ WF_dockerVars(GetDockerClient(p) \/ DockerCall(p))
       /\ SF_dockerVars(Read(p) \/ Connect(p) \/ Reread(p) \/ ForceNegotiation(p))

-----------------------------------------------------------------------------
(* Properties.                                                             *)

DockerTypeOK ==
  /\ dockerClient \in Client \cup {Nil}
  /\ holder \in Proc \cup {Nil}
  /\ callerPc \in [Proc -> {"idle", "get", "init", "ping", "reread", "call", "force",
                            "done", "dead"}]
  /\ cli \in [Proc -> Client \cup {Nil}]
  /\ stage \in [Proc -> {"pull", "repull", "first", "retry", "start"}]
  /\ early \in BOOLEAN
  /\ \A p \in Proc : At(p, "ping") <=> holder = p

\* Nobody works with a client that has not been pinged or forced: initDocker-
\* Client publishes it before the ping, and only the lock hides it.
NeverUnverified == \A p \in Proc : cli[p] # "unverified"

\* An installer starts its container through a client, whatever getDockerClient
\* said: the daemon does not die of it, however often the engine goes away, if
\* it had connected once before the first call.
DaemonLives == ~early => \A p \in Installer : At(p, "call") => cli[p] # Nil

\* Once the engine answers every ping, nobody is handed a nil client any more,
\* whoever had found nil before and connects late, again, or beside another.
RecoversWithTheEngine ==
  <>[][\A p \in Proc : ~PingFails(p)]_dockerVars
    => <>[](\A p \in Caller : At(p, "call") => cli[p] # Nil)

\* Every call comes back, with a result or an error, unless the daemon dies.
EveryCallAnswered ==
  \A p \in Caller : At(p, "get") ~> (At(p, "idle") \/ At(p, "dead"))

=============================================================================
