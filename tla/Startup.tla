------------------------------- MODULE Startup -------------------------------
(***************************************************************************)
(* From the start of the program to its first request: the CPU profile,    *)
(* config.Load, the disk cache, NewClient with its connection attempt and  *)
(* the discovery of capabilities, and the beginning of Run.  The gRPC      *)
(* channel, external, is a state machine of its own that runs beside it.   *)
(***************************************************************************)
EXTENDS Integers

CONSTANTS
  Files,    \* contents of the configuration file: Absent, Broken, or values of some keys
  Envs,     \* environments: values of some keys
  Batches,  \* values of max_batch_total_size_bytes that a server may announce
  IntBound, \* an int is in -IntBound .. IntBound - 1
  ChanMax,  \* the largest capacity of a channel that can be made
  Nil,
  Absent,   \* no such file
  Broken,   \* unreadable, or no JSON document of the right types
  Malformed \* a text that is no number or duration

\* "workers" stands for all numbers and "connect", "request" for the durations;
\* "target", "cert", "key" and "ca" for all texts.
Key == {"target", "cert", "key", "ca", "workers", "connect", "request", "tls"}

Ints == -IntBound .. IntBound - 1

\* The arithmetic of ints.
Wrap(n) == ((n + IntBound) % (2 * IntBound)) - IntBound

Target == [scheme : {"grpcs", "grpc", "none", "other"}, host : {"good", "odd", "bad", "empty"}]

Value(k) ==
  CASE k = "target" -> Target
    [] k \in {"cert", "key"} -> {"one", "two", "bad"}  \* of the first pair, of the second, no file
    [] k = "ca" -> {"good", "bad"}
    [] k = "workers" -> Ints
    [] k \in {"connect", "request"} -> Int
    [] k = "tls" -> BOOLEAN

ASSUME StartupAssumption ==
  /\ \A f \in Files \ {Absent, Broken} :
       DOMAIN f \subseteq Key /\ \A k \in DOMAIN f : f[k] \in Value(k)
  /\ \A e \in Envs : DOMAIN e \subseteq Key /\ \A k \in DOMAIN e :
       \/ e[k] \in Value(k)
       \/ e[k] = Malformed /\ k \in {"workers", "connect", "request"}
  /\ Batches \subseteq Int
  /\ IntBound \in Nat /\ ChanMax \in Nat /\ 4 <= ChanMax /\ ChanMax < IntBound
  /\ \A k \in Key : Nil \notin Value(k) /\ Malformed \notin Value(k)
  /\ Nil \notin {"tls", "plain", "idle", "connecting", "ready", "failure"}

VARIABLES
  file, env, disk,   \* the surroundings: the file, the environment, the cache directory is usable
  profile,           \* no CPU profile is asked for, or it can be started
  remote,            \* "up", "refused" or "silent"
  cancelled,         \* SIGINT or SIGTERM has cancelled the context
  pc,
  cfg,               \* the Config
  transport,         \* the credentials of the channel: Nil, "tls" or "plain"
  chan, old,         \* external: the state of the channel; the state that NewClient saw
  moved,             \* external: a change of state has been notified since
  gaveUp,            \* history: the state of the channel when the wait ended in vain, else Nil
  client,            \* there is a Client
  batch, updates     \* its maxBatchSize and updateEnabled

surroundings == <<file, env, disk, profile>>
waiting == <<old, moved, gaveUp>>
vars == <<surroundings, remote, cancelled, pc, cfg, transport, chan, waiting, client, batch, updates>>

defaults ==
  [k \in Key |-> CASE k \in {"target", "cert", "key", "ca"} -> Nil
                   [] k = "workers" -> 2
                   [] k \in {"connect", "request"} -> 1
                   [] k = "tls" -> FALSE]

DefaultBatch == 4

TypeOK ==
  /\ file \in Files /\ env \in Envs /\ disk \in BOOLEAN /\ profile \in BOOLEAN
  /\ remote \in {"up", "refused", "silent"}
  /\ cancelled \in BOOLEAN
  /\ pc \in {"profile", "load", "disk", "dial", "connect", "sample", "check", "wait", "discover",
             "run", "serve", "ended", "fatal", "panic"}
  /\ \A k \in Key : cfg[k] \in Value(k) \cup {Nil}
  /\ transport \in {Nil, "tls", "plain"}
  /\ chan \in {Nil, "idle", "connecting", "ready", "failure"}
  /\ old \in {Nil, "idle", "connecting", "ready", "failure"}
  /\ moved \in BOOLEAN
  /\ gaveUp \in {Nil, "idle", "connecting", "ready", "failure"}
  /\ client \in BOOLEAN
  /\ batch \in Nat \ {0} /\ updates \in BOOLEAN

Init ==
  /\ file \in Files /\ env \in Envs /\ disk \in BOOLEAN /\ profile \in BOOLEAN
  /\ remote \in {"up", "refused", "silent"}
  /\ cancelled = FALSE
  /\ pc = "profile"
  /\ cfg = defaults
  /\ transport = Nil
  /\ chan = Nil /\ old = Nil /\ moved = FALSE /\ gaveUp = Nil
  /\ client = FALSE
  /\ batch = DefaultBatch /\ updates = TRUE

-----------------------------------------------------------------------------
(* Profile and configuration *)

\* run: a CPU profile that is asked for and cannot be created or started is fatal.
StartProfile ==
  /\ pc = "profile"
  /\ pc' = IF profile THEN "load" ELSE "fatal"
  /\ UNCHANGED <<surroundings, remote, cancelled, cfg, transport, chan, waiting, client, batch, updates>>

\* json.Unmarshal into the defaults.
loadFile(c) == IF file = Absent THEN c
               ELSE [k \in Key |-> IF k \in DOMAIN file THEN file[k] ELSE c[k]]

\* Mutant: the error is not looked at, and beside a range error Atoi returns the
\* greatest integer.
applyEnv_RangeError(c) ==
  [k \in Key |-> IF k \notin DOMAIN env \/ (k = "tls" /\ ~env[k]) THEN c[k]
                 ELSE IF env[k] # Malformed THEN env[k]
                 ELSE IF k = "workers" THEN IntBound - 1 ELSE 0]

\* What parses replaces the value so far; the flag tls can only be turned on.
applyEnv(c) ==
  [k \in Key |-> IF k \in DOMAIN env /\ env[k] # Malformed /\ (k = "tls" => env[k])
                 THEN env[k] ELSE c[k]]

\* Load: the file over the defaults, the environment over both, a target required.
Load ==
  /\ pc = "load"
  /\ IF file = Broken
     THEN pc' = "fatal" /\ UNCHANGED cfg
     ELSE /\ cfg' = applyEnv(loadFile(defaults))
          /\ pc' = IF cfg'["target"] = Nil THEN "fatal" ELSE "disk"
  /\ UNCHANGED <<surroundings, remote, cancelled, transport, chan, waiting, client, batch, updates>>

\* NewDiskCache.
OpenCache ==
  /\ pc = "disk"
  /\ pc' = IF disk THEN "dial" ELSE "fatal"
  /\ UNCHANGED <<surroundings, remote, cancelled, cfg, transport, chan, waiting, client, batch, updates>>

-----------------------------------------------------------------------------
(* NewClient *)

\* ParseTarget, normalizeHostPort and grpc.NewClient accept the target.
TargetGood(t) == t.scheme # "other" /\ t.host = "good"

\* ParseTarget: the scheme decides about TLS, the flag only without a scheme.
parsedTLS == CASE cfg["target"].scheme = "grpcs" -> TRUE
               [] cfg["target"].scheme = "none" -> cfg["tls"]
               [] OTHER -> FALSE

\* dialOptions: certificate and key can be loaded and belong together, unless only one
\* of them is given, which is not loaded; so can the authorities.
CredentialsGood ==
  /\ cfg["cert"] # Nil /\ cfg["key"] # Nil => cfg["cert"] = cfg["key"] /\ cfg["cert"] # "bad"
  /\ cfg["ca"] # "bad"

\* Mutant: TLS only by scheme or flag, whatever files are given.
Secured_ByFlag == parsedTLS

\* dialOptions: any TLS file turns TLS on.
Secured == parsedTLS \/ \E k \in {"cert", "key", "ca"} : cfg[k] # Nil

\* NewClient returns an error: run goes on without a client, in local-only mode.
NoClient == /\ pc' = "run"
            /\ client' = FALSE
            /\ chan' = Nil

Dial ==
  /\ pc = "dial"
  /\ IF TargetGood(cfg["target"]) /\ CredentialsGood
     THEN /\ transport' = IF Secured THEN "tls" ELSE "plain"
          /\ chan' = "idle"
          /\ pc' = IF cfg["connect"] > 0 THEN "connect" ELSE "discover"
          /\ UNCHANGED client
     ELSE NoClient /\ UNCHANGED transport
  /\ UNCHANGED <<surroundings, remote, cancelled, cfg, waiting, batch, updates>>

\* conn.Connect only asks for a connection.
Connect ==
  /\ pc = "connect"
  /\ pc' = "sample"
  /\ UNCHANGED <<surroundings, remote, cancelled, cfg, transport, chan, waiting, client, batch, updates>>

\* conn.GetState, some time after.
Sample ==
  /\ pc = "sample"
  /\ old' = chan
  /\ pc' = "check"
  /\ UNCHANGED <<surroundings, remote, cancelled, cfg, transport, chan, moved, gaveUp, client, batch,
                 updates>>

\* WaitForStateChange returns true if the state is another one by now, and else waits
\* for the notification of a change.
Check ==
  /\ pc = "check"
  /\ pc' = IF chan # old THEN "discover" ELSE "wait"
  /\ moved' = FALSE
  /\ UNCHANGED <<surroundings, remote, cancelled, cfg, transport, chan, old, gaveUp, client, batch,
                 updates>>

\* It returns true: at any change, to a failure as well.
StateChanged ==
  /\ pc = "wait" /\ moved
  /\ pc' = "discover"
  /\ UNCHANGED <<surroundings, remote, cancelled, cfg, transport, chan, waiting, client, batch, updates>>

\* Mutant: the wait has no timeout.
ConnectTimeout_Never ==
  /\ pc = "wait" /\ cancelled
  /\ gaveUp' = chan
  /\ NoClient
  /\ UNCHANGED <<surroundings, remote, cancelled, cfg, transport, old, moved, batch, updates>>

\* It returns false: the timeout is over or the context cancelled.  If a change has
\* been notified too, either may come first.
ConnectTimeout ==
  /\ pc = "wait"
  /\ gaveUp' = chan
  /\ NoClient
  /\ UNCHANGED <<surroundings, remote, cancelled, cfg, transport, old, moved, batch, updates>>

\* Mutant: a batch size of zero, the value of a field that is not set, is taken too.
Announced_Zero(b) == b

\* discoverCapabilities: only a positive batch size is taken.
Announced(b) == IF b > 0 THEN b ELSE batch

\* The server answers, with or without cache capabilities, and with or without
\* ("unset") a word on updates of the action cache.
Discover ==
  /\ pc = "discover"
  /\ chan = "ready" /\ cfg["request"] > 0 /\ ~cancelled
  /\ \/ UNCHANGED <<batch, updates>>
     \/ \E b \in Batches, u \in {"unset", "yes", "no"} :
          /\ batch' = Announced(b)
          /\ updates' = IF u = "unset" THEN updates ELSE u = "yes"
  /\ client' = TRUE
  /\ pc' = "run"
  /\ UNCHANGED <<surroundings, remote, cancelled, cfg, transport, chan, waiting>>

\* Mutant: NewClient returns the error of the discovery.
DiscoverFails_NoClient ==
  /\ pc = "discover"
  /\ NoClient
  /\ UNCHANGED <<surroundings, remote, cancelled, cfg, transport, waiting, batch, updates>>

\* The call fails or exceeds the request timeout: the client keeps its defaults.
DiscoverFails ==
  /\ pc = "discover"
  /\ client' = TRUE
  /\ pc' = "run"
  /\ UNCHANGED <<surroundings, remote, cancelled, cfg, transport, chan, waiting, batch, updates>>

\* The capacity of the channel of requests, two for each worker.
Capacity == Wrap(2 * cfg["workers"])

\* Run returns if the handshake cannot be written; it makes the channel of requests,
\* which panics if there is no channel of that capacity, and starts the workers.
Run ==
  /\ pc = "run"
  /\ \/ pc' = "ended"
     \/ pc' = IF Capacity \in 0..ChanMax THEN "serve" ELSE "panic"
  /\ UNCHANGED <<surroundings, remote, cancelled, cfg, transport, chan, waiting, client, batch, updates>>

-----------------------------------------------------------------------------
(* External: the channel, which nobody has to wait for, and signals *)

\* What happens after start-up is the subject of other modules.
Starting == pc \notin {"serve", "ended", "fatal", "panic"}

\* The channel is asked for a connection by Connect and by a call.
Wanted == pc \in {"sample", "check", "wait", "discover"}

Channel ==
  /\ Starting
  /\ \/ chan = "idle" /\ Wanted /\ chan' = "connecting"
     \/ chan = "connecting" /\ remote = "up" /\ chan' = "ready"
     \/ chan = "connecting" /\ remote # "up" /\ chan' = "failure"
     \/ chan = "failure" /\ chan' = "connecting"
     \/ chan = "ready" /\ remote # "up" /\ chan' = "idle"
  /\ moved' = TRUE
  /\ UNCHANGED <<surroundings, remote, cancelled, pc, cfg, transport, old, gaveUp, client, batch,
                 updates>>

RemoteChanges ==
  /\ Starting
  /\ remote' \in {"up", "refused", "silent"} \ {remote}
  /\ UNCHANGED <<surroundings, cancelled, pc, cfg, transport, chan, waiting, client, batch, updates>>

Signal ==
  /\ Starting /\ ~cancelled
  /\ cancelled' = TRUE
  /\ UNCHANGED <<surroundings, remote, pc, cfg, transport, chan, waiting, client, batch, updates>>

-----------------------------------------------------------------------------

Step == \/ StartProfile \/ Load \/ OpenCache \/ Dial \/ Connect \/ Sample \/ Check
        \/ StateChanged \/ ConnectTimeout \/ Discover \/ DiscoverFails \/ Run

Next == Step \/ Channel \/ RemoteChanges \/ Signal

Spec == Init /\ [][Next]_vars

\* The main goroutine runs; the timers of both contexts fire.
FairSpec == Spec /\ WF_vars(Step)

-----------------------------------------------------------------------------
(* Properties *)

\* A key is mentioned with a value of S in the environment or in the file.
Mentioned(k, S) ==
  \/ k \in DOMAIN env /\ env[k] \in S
  \/ file \notin {Absent, Broken} /\ k \in DOMAIN file /\ file[k] \in S

\* The value of a key by the documented precedence: the environment, where it holds a
\* value, then the file, then the defaults (Load, README).
InForce(k) ==
  IF k \in DOMAIN env /\ env[k] # Malformed THEN env[k]
  ELSE IF file # Absent /\ k \in DOMAIN file THEN file[k] ELSE defaults[k]

\* Trouble with the remote, with its address or with the TLS files never ends the
\* program (run, NewClient): only a profile that cannot be started, a broken file, a
\* target that is nowhere to be found or an unusable cache directory does; and a text
\* that is no number never makes it panic, only a number of workers somebody asked for
\* that is negative or too large for a channel of twice that capacity (Run).
DegradesNotDies ==
  /\ pc = "fatal" => ~profile \/ file = Broken \/ ~disk \/ ~Mentioned("target", Target)
  /\ pc = "panic" => Mentioned("workers", Ints \ 0..(ChanMax \div 2))

\* No channel without TLS is made where TLS is documented to be on: with a grpcs target
\* in force, or a target without scheme and the flag or a TLS file in force (applyEnv,
\* ParseTarget, dialOptions).
SecureWhenAsked ==
  transport = "plain" =>
    \/ InForce("target").scheme = "grpc"
    \/ /\ InForce("target").scheme = "none"
       /\ ~InForce("tls")
       /\ \A k \in {"cert", "key", "ca"} : InForce(k) = Nil

\* The program has a client unless the target or a TLS file is no good or it waited in
\* vain for a first connection, which only a positive timeout makes it do.  A discovery
\* that fails or is cut off is no reason (NewClient: "Non-fatal").
LocalOnlyForCause ==
  /\ pc \in {"run", "serve", "ended", "panic"} =>
       (client <=> TargetGood(cfg["target"]) /\ CredentialsGood /\ gaveUp = Nil)
  /\ gaveUp # Nil => cfg["connect"] > 0

\* Start-up comes to an end, with a remote that never answers too.
StartupEnds == <>~Starting

\* The converse, as the table of targets and the order of precedence have it (README:
\* "grpc://host[:port]": no; "environment variables > config file > defaults"; client.go:29:
\* "insecure"): no channel with TLS is made for a grpc target, nor for one without scheme
\* if neither the flag nor a TLS file is in force.
PlainWhenAsked ==
  transport = "tls" =>
    \/ InForce("target").scheme = "grpcs"
    \/ /\ InForce("target").scheme = "none"
       /\ InForce("tls") \/ \E k \in {"cert", "key", "ca"} : InForce(k) # Nil

=============================================================================
