---------------------------- MODULE StartupProofs ----------------------------
(***************************************************************************)
(* Proofs about Startup, for any contents of the configuration file, any   *)
(* environments and any announcements of the server.                       *)
(***************************************************************************)
EXTENDS Startup, TLAPS

\* What Load makes of the surroundings.
Result == applyEnv(loadFile(defaults))

\* The steps after Load, those that a timeout for the connection leads to, and those
\* after the making of the channel.
Loaded  == {"disk", "dial", "connect", "sample", "check", "wait", "discover", "run", "serve",
            "ended", "panic"}
Waiting == {"connect", "sample", "check", "wait"}
Dialled == {"connect", "sample", "check", "wait", "discover", "run", "serve", "ended", "panic"}

\* How far start-up is, and what the steps before have left.
PhaseInv ==
  /\ pc \in {"profile", "load"} => cfg = defaults
  /\ pc \in Loaded => file # Broken /\ cfg = Result /\ cfg["target"] # Nil
  /\ pc \in Waiting => cfg["connect"] > 0
  /\ transport # Nil => pc \in Dialled
  /\ pc \in Waiting \cup {"discover"} =>
       TargetGood(cfg["target"]) /\ CredentialsGood
  /\ pc \notin {"run", "serve", "ended", "panic"} => gaveUp = Nil
  /\ pc \in Waiting => chan # Nil

StartupInv ==
  /\ TypeOK /\ PhaseInv
  /\ DegradesNotDies /\ SecureWhenAsked /\ LocalOnlyForCause

-----------------------------------------------------------------------------
(* What Load computes *)

\* Each key comes from the environment, from the file or from the defaults, in this
\* order, except for the flag, which only counts where it is set.
LEMMA Sources ==
  ASSUME file \in Files, env \in Envs, file # Broken, NEW k \in Key
  PROVE  \/ k \in DOMAIN env /\ env[k] # Malformed /\ (k = "tls" => env[k]) /\ Result[k] = env[k]
         \/ /\ k \notin DOMAIN env \/ env[k] = Malformed \/ (k = "tls" /\ ~env[k])
            /\ \/ file # Absent /\ k \in DOMAIN file /\ Result[k] = file[k]
               \/ (file = Absent \/ k \notin DOMAIN file) /\ Result[k] = defaults[k]
<1>1. Result[k] = IF k \in DOMAIN env /\ env[k] # Malformed /\ (k = "tls" => env[k])
                  THEN env[k] ELSE loadFile(defaults)[k]
  BY DEF Result, applyEnv
<1>2. loadFile(defaults)[k] = IF file = Absent \/ k \notin DOMAIN file THEN defaults[k] ELSE file[k]
  BY DEF loadFile
<1> QED BY <1>1, <1>2

\* The values in an environment or a file have the types of their keys.
LEMMA ValuesTyped ==
  ASSUME file \in Files, env \in Envs, NEW k \in Key
  PROVE  /\ k \in DOMAIN env => env[k] \in Value(k) \/ env[k] = Malformed
         /\ file \notin {Absent, Broken} /\ k \in DOMAIN file => file[k] \in Value(k)
         /\ k \notin {"workers", "connect", "request"} /\ k \in DOMAIN env => env[k] \in Value(k)
         /\ Nil \notin Value(k) /\ Malformed \notin Value(k)
BY StartupAssumption

\* The defaults have the types of their keys, or are not set.
LEMMA DefaultsTyped == \A k \in Key : defaults[k] \in Value(k) \cup {Nil}
<1>1. 2 \in Ints
  BY StartupAssumption DEF Ints
<1> QED BY <1>1 DEF Key, Value, defaults

\* So has the result of Load.
LEMMA ResultTyped ==
  ASSUME file \in Files, env \in Envs, file # Broken
  PROVE  \A k \in Key : Result[k] \in Value(k) \cup {Nil}
<1> SUFFICES ASSUME NEW k \in Key PROVE Result[k] \in Value(k) \cup {Nil}
  OBVIOUS
<1> QED BY Sources, ValuesTyped, DefaultsTyped

\* A target that is not set after Load was set nowhere.
LEMMA NoTargetAnywhere ==
  ASSUME file \in Files, env \in Envs, file # Broken, Result["target"] = Nil
  PROVE  ~Mentioned("target", Target)
<1>1. "target" \in Key /\ "target" # "tls" /\ "target" \notin {"workers", "connect", "request"}
  BY DEF Key
<1>2. "target" \notin DOMAIN env
  BY <1>1, Sources, ValuesTyped
<1>3. file # Absent => "target" \notin DOMAIN file
  BY <1>1, <1>2, Sources, ValuesTyped
<1> QED BY <1>2, <1>3 DEF Mentioned

\* Load follows the documented precedence, except for the flag.
LEMMA ByPrecedence ==
  ASSUME file \in Files, env \in Envs, file # Broken, NEW k \in Key, k # "tls"
  PROVE  Result[k] = InForce(k)
BY Sources DEF InForce

\* A flag that is not set after Load is not set by the documented precedence.
LEMMA FlagByPrecedence ==
  ASSUME file \in Files, env \in Envs, file # Broken, ~Result["tls"]
  PROVE  ~InForce("tls")
<1>1. "tls" \in Key /\ "tls" \notin {"workers", "connect", "request"}
  BY DEF Key
<1>2. CASE "tls" \in DOMAIN env
  <2>1. env["tls"] \in BOOLEAN /\ env["tls"] # Malformed
    <3>1. Value("tls") = BOOLEAN
      BY DEF Value
    <3> QED BY <1>1, <1>2, <3>1, ValuesTyped
  <2>2. ~env["tls"]
    BY <1>1, <1>2, <2>1, Sources
  <2> QED BY <1>2, <2>1, <2>2 DEF InForce
<1>3. CASE "tls" \notin DOMAIN env
  <2>1. Result["tls"] = InForce("tls")
    BY <1>1, <1>3, Sources DEF InForce
  <2> QED BY <2>1
<1> QED BY <1>2, <1>3

\* A channel for a moderate number of workers can be made.
LEMMA ModerateCapacity ==
  ASSUME NEW w \in 0..(ChanMax \div 2)
  PROVE  Wrap(2 * w) \in 0..ChanMax
<1>1. IntBound \in Nat /\ ChanMax \in Nat /\ ChanMax < IntBound
  BY StartupAssumption
<1>2. w \in Nat /\ 2 * w \in 0..ChanMax
  BY <1>1
<1>3. /\ 2 * w + IntBound \in Nat /\ 2 * IntBound \in Nat
      /\ 2 * w + IntBound < 2 * IntBound
  BY <1>1, <1>2
<1>4. (2 * w + IntBound) % (2 * IntBound) = 2 * w + IntBound
  BY <1>3
<1>5. Wrap(2 * w) = 2 * w
  BY <1>1, <1>2, <1>4 DEF Wrap
<1> QED BY <1>2, <1>5

\* A number of workers for which there is no channel was asked for.
LEMMA ExtremeWorkersAsked ==
  ASSUME file \in Files, env \in Envs, file # Broken, Result["workers"] \in Ints,
         Wrap(2 * Result["workers"]) \notin 0..ChanMax
  PROVE  Mentioned("workers", Ints \ 0..(ChanMax \div 2))
<1>1. "workers" \in Key /\ "workers" # "tls" /\ Value("workers") = Ints
  BY DEF Key, Value
<1>2. Result["workers"] \in Ints \ 0..(ChanMax \div 2)
  BY ModerateCapacity
<1>3. defaults["workers"] = 2
  BY <1>1 DEF defaults
<1>4. 2 \in 0..(ChanMax \div 2)
  BY StartupAssumption
<1>5. Result["workers"] # defaults["workers"]
  BY <1>2, <1>3, <1>4
<1>6. \/ "workers" \in DOMAIN env /\ Result["workers"] = env["workers"]
      \/ file # Absent /\ "workers" \in DOMAIN file /\ Result["workers"] = file["workers"]
  BY <1>1, <1>5, Sources
<1> QED BY <1>2, <1>6 DEF Mentioned

\* The type of the target and of the number of workers once Load is through.
LEMMA KeyTypes ==
  ASSUME TypeOK, PhaseInv, pc \in Loaded
  PROVE  cfg["target"] \in Target /\ cfg["workers"] \in Ints
<1>1. /\ {"target", "workers"} \subseteq Key
      /\ Value("target") = Target /\ Value("workers") = Ints
  BY DEF Key, Value
<1>2. cfg["target"] \in Target
  BY <1>1 DEF TypeOK, PhaseInv
<1>3. cfg["workers"] # Nil
  <2>1. cfg["workers"] = Result["workers"] /\ file \in Files /\ env \in Envs /\ file # Broken
    BY DEF PhaseInv, TypeOK
  <2>2. defaults["workers"] = 2
    BY <1>1 DEF defaults
  <2>3. defaults["workers"] \in Value("workers")
    BY <1>1, <2>2, StartupAssumption DEF Ints
  <2> QED BY <2>1, <2>3, <1>1, Sources, ValuesTyped
<1> QED BY <1>1, <1>2, <1>3 DEF TypeOK

-----------------------------------------------------------------------------
(* The inductive invariant *)

Phases == {"profile", "load", "disk", "dial", "connect", "sample", "check", "wait", "discover",
           "run", "serve", "ended", "fatal", "panic"}
States == {Nil, "idle", "connecting", "ready", "failure"}

\* The types, part by part.
LEMMA TypeParts ==
  TypeOK <=>
    /\ file \in Files /\ env \in Envs /\ disk \in BOOLEAN /\ profile \in BOOLEAN
    /\ remote \in {"up", "refused", "silent"}
    /\ cancelled \in BOOLEAN
    /\ pc \in Phases
    /\ \A k \in Key : cfg[k] \in Value(k) \cup {Nil}
    /\ transport \in {Nil, "tls", "plain"}
    /\ chan \in States /\ old \in States /\ gaveUp \in States
    /\ moved \in BOOLEAN /\ client \in BOOLEAN /\ updates \in BOOLEAN
    /\ batch \in Nat \ {0}
BY ZenonT(40) DEF TypeOK, Phases, States

\* The program starts with the invariant.
LEMMA StartupInit == Init => StartupInv
<1> SUFFICES ASSUME Init PROVE StartupInv
  OBVIOUS
<1>1. /\ cfg = defaults /\ pc = "profile" /\ transport = Nil /\ client = FALSE /\ batch = 4
      /\ gaveUp = Nil /\ chan = Nil /\ old = Nil
  BY DEF Init, DefaultBatch
<1>2. TypeOK
  <2>1. \A k \in Key : cfg[k] \in Value(k) \cup {Nil}
    BY <1>1, DefaultsTyped
  <2>2. /\ file \in Files /\ env \in Envs /\ disk \in BOOLEAN /\ profile \in BOOLEAN
        /\ cancelled \in BOOLEAN /\ moved \in BOOLEAN /\ client \in BOOLEAN /\ updates \in BOOLEAN
        /\ remote \in {"up", "refused", "silent"}
    BY Zenon DEF Init
  <2>3. batch \in Nat \ {0}
    BY <1>1
  <2>4. /\ pc \in Phases /\ transport \in {Nil, "tls", "plain"}
        /\ chan \in States /\ old \in States /\ gaveUp \in States
    BY <1>1 DEF Phases, States
  <2> QED BY <2>1, <2>2, <2>3, <2>4, TypeParts, Zenon
<1>3. PhaseInv
  BY <1>1 DEF PhaseInv, Loaded, Waiting
<1>4. DegradesNotDies /\ SecureWhenAsked /\ LocalOnlyForCause
  BY <1>1, StartupAssumption DEF DegradesNotDies, SecureWhenAsked, LocalOnlyForCause
<1> QED BY <1>2, <1>3, <1>4 DEF StartupInv

\* What was mentioned and what is in force depend on the file and the environment only.
LEMMA SameSurroundings ==
  ASSUME UNCHANGED <<file, env>>
  PROVE  /\ Result' = Result
         /\ \A k, S : Mentioned(k, S)' <=> Mentioned(k, S)
         /\ \A k : InForce(k)' = InForce(k)
<1>1. Result' = Result
  BY DEF Result, applyEnv, loadFile
<1>2. \A k, S : Mentioned(k, S)' <=> Mentioned(k, S)
  BY DEF Mentioned
<1>3. \A k : InForce(k)' = InForce(k)
  BY DEF InForce
<1> QED BY <1>1, <1>2, <1>3

\* A step of the main goroutine before Dial changes its place, and Load the Config.
LEMMA EarlyTypes ==
  ASSUME TypeOK,
         UNCHANGED <<file, env, disk, profile, remote, cancelled, transport, chan, old, moved,
                     gaveUp, client, batch, updates>>,
         \A k \in Key : cfg'[k] \in Value(k) \cup {Nil},
         pc' \in Phases
  PROVE  TypeOK'
<1>1. /\ file' \in Files /\ env' \in Envs /\ disk' \in BOOLEAN /\ profile' \in BOOLEAN
      /\ remote' \in {"up", "refused", "silent"}
      /\ cancelled' \in BOOLEAN
  BY Zenon, TypeParts
<1>2. /\ transport' \in {Nil, "tls", "plain"}
      /\ chan' \in States /\ old' \in States /\ gaveUp' \in States
      /\ moved' \in BOOLEAN /\ client' \in BOOLEAN /\ updates' \in BOOLEAN
      /\ batch' \in Nat \ {0}
  BY Zenon, TypeParts
<1> QED BY <1>1, <1>2, Zenon DEF TypeOK, Phases, States

\* The profile is started, or the program gives up for this cause.
LEMMA StartProfileStep ==
  ASSUME StartupInv, StartProfile
  PROVE  StartupInv'
<1>1. /\ pc = "profile" /\ pc' = IF profile THEN "load" ELSE "fatal"
      /\ UNCHANGED <<file, env, disk, profile, remote, cancelled, cfg, transport, chan, old, moved,
                     gaveUp, client, batch, updates>>
  BY DEF StartProfile, surroundings, waiting
<1>2. TypeOK'
  <2>1. pc' \in Phases
    BY <1>1 DEF Phases
  <2>2. \A k \in Key : cfg'[k] \in Value(k) \cup {Nil}
    BY <1>1 DEF StartupInv, TypeOK
  <2> QED BY <1>1, <2>1, <2>2, EarlyTypes DEF StartupInv
<1>3. transport = Nil /\ gaveUp = Nil
  BY <1>1 DEF StartupInv, PhaseInv, Dialled
<1>4. PhaseInv'
  BY <1>1, <1>3 DEF StartupInv, PhaseInv, Loaded, Waiting, Dialled
<1>5. DegradesNotDies' /\ SecureWhenAsked' /\ LocalOnlyForCause'
  BY <1>1, <1>3, StartupAssumption DEF DegradesNotDies, SecureWhenAsked, LocalOnlyForCause
<1> QED BY <1>2, <1>4, <1>5 DEF StartupInv

\* Load establishes what the other steps rely on, and gives up for a cause.
LEMMA LoadStep ==
  ASSUME StartupInv, Load
  PROVE  StartupInv'
<1>1. /\ pc = "load" /\ transport = Nil /\ gaveUp = Nil
      /\ UNCHANGED <<file, env, disk, profile, remote, cancelled, transport, chan, old, moved,
                     gaveUp, client, batch, updates>>
  BY DEF Load, StartupInv, PhaseInv, Dialled, surroundings, waiting
<1>2. \/ file = Broken /\ pc' = "fatal" /\ cfg' = cfg
      \/ /\ file # Broken /\ cfg' = Result
         /\ pc' = IF cfg'["target"] = Nil THEN "fatal" ELSE "disk"
  BY DEF Load, Result
<1>3. Result' = Result /\ file' = file /\ env' = env
  BY <1>1, SameSurroundings
<1>4. file \in Files /\ env \in Envs
  BY DEF StartupInv, TypeOK
<1>5. \A k \in Key : cfg'[k] \in Value(k) \cup {Nil}
  BY <1>2, <1>4, ResultTyped DEF StartupInv, TypeOK
<1>6. TypeOK'
  <2>1. pc' \in Phases
    BY <1>2 DEF Phases
  <2> QED BY <1>1, <1>5, <2>1, EarlyTypes DEF StartupInv
<1>7. PhaseInv'
  BY <1>1, <1>2, <1>3 DEF PhaseInv, Loaded, Waiting
<1>8. DegradesNotDies'
  <2>1. CASE file = Broken
    BY <1>2, <1>3, <2>1 DEF DegradesNotDies
  <2>2. CASE file # Broken /\ Result["target"] = Nil
    <3>1. ~Mentioned("target", Target)
      BY <1>4, <2>2, NoTargetAnywhere
    <3>2. ~Mentioned("target", Target)'
      BY <1>3, <3>1 DEF Mentioned
    <3> QED BY <1>2, <2>2, <3>2 DEF DegradesNotDies
  <2>3. CASE file # Broken /\ Result["target"] # Nil
    BY <1>2, <2>3 DEF DegradesNotDies
  <2> QED BY <2>1, <2>2, <2>3
<1>9. SecureWhenAsked'
  BY <1>1, StartupAssumption DEF SecureWhenAsked
<1>10. LocalOnlyForCause'
  BY <1>1, <1>2 DEF LocalOnlyForCause
<1> QED BY <1>6, <1>7, <1>8, <1>9, <1>10 DEF StartupInv

\* A step that leaves the configuration and the credentials alone keeps SecureWhenAsked.
LEMMA StillSecure ==
  ASSUME StartupInv, UNCHANGED <<file, env, transport>>
  PROVE  SecureWhenAsked'
BY SameSurroundings DEF StartupInv, SecureWhenAsked

\* A step to a state other than the two ends keeps DegradesNotDies.
LEMMA NoEnd ==
  ASSUME StartupInv, UNCHANGED <<file, env, disk, profile>>,
         pc' = pc \/ pc' \notin {"fatal", "panic"}
  PROVE  DegradesNotDies'
BY DEF StartupInv, DegradesNotDies, Mentioned

\* NewDiskCache fails, or start-up goes on.
LEMMA OpenCacheStep ==
  ASSUME StartupInv, OpenCache
  PROVE  StartupInv'
<1>1. /\ pc = "disk" /\ pc' = IF disk THEN "dial" ELSE "fatal"
      /\ UNCHANGED <<file, env, disk, profile, remote, cancelled, cfg, transport, chan, old, moved,
                     gaveUp, client, batch, updates>>
  BY DEF OpenCache, surroundings, waiting
<1>2. TypeOK'
  <2>1. pc' \in Phases
    BY <1>1 DEF Phases
  <2>2. \A k \in Key : cfg'[k] \in Value(k) \cup {Nil}
    BY <1>1 DEF StartupInv, TypeOK
  <2> QED BY <1>1, <2>1, <2>2, EarlyTypes DEF StartupInv
<1>3. transport = Nil /\ gaveUp = Nil
  BY <1>1 DEF StartupInv, PhaseInv, Dialled
<1>4. Result' = Result
  BY <1>1, SameSurroundings
<1>5. PhaseInv'
  BY <1>1, <1>3, <1>4 DEF StartupInv, PhaseInv, Loaded, Waiting, Dialled
<1>6. DegradesNotDies'
  BY <1>1 DEF DegradesNotDies
<1>7. SecureWhenAsked'
  BY <1>1, StillSecure
<1>8. LocalOnlyForCause'
  BY <1>1, <1>3 DEF LocalOnlyForCause
<1> QED BY <1>2, <1>5, <1>6, <1>7, <1>8 DEF StartupInv

\* A channel without TLS is only made where TLS is not documented to be on.
LEMMA PlainForCause ==
  ASSUME StartupInv, pc = "dial", ~Secured, TargetGood(cfg["target"])
  PROVE  \/ InForce("target").scheme = "grpc"
         \/ /\ InForce("target").scheme = "none"
            /\ ~InForce("tls")
            /\ \A k \in {"cert", "key", "ca"} : InForce(k) = Nil
<1>1. /\ file \in Files /\ env \in Envs /\ file # Broken /\ cfg = Result
      /\ pc \in Loaded
  BY DEF StartupInv, TypeOK, PhaseInv, Loaded
<1>2. ~parsedTLS /\ \A k \in {"cert", "key", "ca"} : Result[k] = Nil
  BY <1>1 DEF Secured
<1>3. cfg["target"].scheme \in {"grpc", "none"}
  <2>1. cfg["target"] \in Target
    BY <1>1, KeyTypes DEF StartupInv
  <2>2. cfg["target"].scheme \in {"grpcs", "grpc", "none", "other"}
    BY <2>1 DEF Target
  <2>3. cfg["target"].scheme # "grpcs"
    BY <1>2 DEF parsedTLS
  <2>4. cfg["target"].scheme # "other"
    BY DEF TargetGood
  <2> QED BY <2>2, <2>3, <2>4
<1>4. \A k \in {"target", "cert", "key", "ca"} : Result[k] = InForce(k)
  <2>1. {"target", "cert", "key", "ca"} \subseteq Key
    BY DEF Key
  <2> QED BY <1>1, <2>1, ByPrecedence
<1>5. ASSUME cfg["target"].scheme = "none" PROVE ~InForce("tls")
  <2>1. ~Result["tls"]
    BY <1>1, <1>2, <1>5 DEF parsedTLS
  <2> QED BY <1>1, <2>1, FlagByPrecedence
<1>6. cfg["target"] = InForce("target")
  BY <1>1, <1>4
<1>7. \A k \in {"cert", "key", "ca"} : InForce(k) = Nil
  BY <1>2, <1>4
<1> QED BY <1>3, <1>5, <1>6, <1>7

\* NewClient makes a channel with the credentials asked for, or there is no client.
LEMMA DialStep ==
  ASSUME StartupInv, Dial
  PROVE  StartupInv'
<1>1. /\ pc = "dial"
      /\ UNCHANGED <<file, env, disk, profile, remote, cancelled, cfg, old, moved, gaveUp, batch,
                     updates>>
  BY DEF Dial, surroundings, waiting
<1>2. \/ /\ TargetGood(cfg["target"]) /\ CredentialsGood
         /\ transport' = (IF Secured THEN "tls" ELSE "plain")
         /\ chan' = "idle" /\ client' = client
         /\ pc' = IF cfg["connect"] > 0 THEN "connect" ELSE "discover"
      \/ /\ ~(TargetGood(cfg["target"]) /\ CredentialsGood)
         /\ transport' = transport /\ chan' = Nil /\ client' = FALSE /\ pc' = "run"
  BY DEF Dial, NoClient
<1>3. transport = Nil /\ pc \in Loaded /\ gaveUp = Nil
  BY <1>1 DEF StartupInv, PhaseInv, Dialled, Loaded
<1>4. TypeOK'
  <2>1. pc' \in Phases /\ chan' \in States
    BY <1>2 DEF Phases, States
  <2>2. transport' \in {Nil, "tls", "plain"}
    BY <1>2, <1>3
  <2>3. client' \in BOOLEAN
    BY <1>2, Zenon DEF StartupInv, TypeOK
  <2>4. /\ file' \in Files /\ env' \in Envs /\ disk' \in BOOLEAN /\ profile' \in BOOLEAN
        /\ remote' \in {"up", "refused", "silent"}
        /\ cancelled' \in BOOLEAN
    BY <1>1, TypeParts, Zenon DEF StartupInv
  <2>5. /\ \A k \in Key : cfg'[k] \in Value(k) \cup {Nil}
        /\ old' \in States /\ gaveUp' \in States /\ moved' \in BOOLEAN /\ updates' \in BOOLEAN
        /\ batch' \in Nat \ {0}
    BY <1>1, TypeParts, Zenon DEF StartupInv
  <2> QED BY <2>1, <2>2, <2>3, <2>4, <2>5, Zenon DEF TypeOK, Phases, States
<1>5. Result' = Result
  BY <1>1, SameSurroundings
<1>6. PhaseInv'
  BY <1>1, <1>2, <1>3, <1>5, StartupAssumption
  DEF StartupInv, PhaseInv, Loaded, Waiting, Dialled, CredentialsGood
<1>7. DegradesNotDies'
  BY <1>1, <1>2, NoEnd
<1>8. SecureWhenAsked'
  <2>1. transport' = "plain" => ~Secured /\ TargetGood(cfg["target"])
    BY <1>2, <1>3, StartupAssumption
  <2>2. \A k : InForce(k)' = InForce(k)
    BY <1>1, SameSurroundings
  <2> QED BY <1>1, <2>1, <2>2, PlainForCause DEF SecureWhenAsked
<1>9. LocalOnlyForCause'
  BY <1>1, <1>2, <1>3 DEF LocalOnlyForCause, CredentialsGood
<1> QED BY <1>4, <1>6, <1>7, <1>8, <1>9 DEF StartupInv

\* The remaining steps of the main goroutine.
Later == \/ Connect \/ Sample \/ Check \/ StateChanged \/ ConnectTimeout \/ Discover
         \/ DiscoverFails \/ Run

\* They keep the types.
LEMMA LaterTypes ==
  ASSUME StartupInv, Later
  PROVE  TypeOK'
<1> USE DEF Later, Connect, Sample, Check, StateChanged, ConnectTimeout, Discover, DiscoverFails, Run
<1>1. UNCHANGED <<file, env, disk, profile, remote, cancelled, cfg, transport>>
  BY DEF surroundings
<1>2. pc' \in Phases
  BY DEF NoClient, Phases
<1>3. chan' \in {Nil, chan} /\ old' \in {old, chan} /\ gaveUp' \in {gaveUp, chan}
  BY DEF NoClient, waiting
<1>4. batch' \in Nat \ {0}
  BY StartupAssumption DEF StartupInv, TypeOK, Announced
<1>5. moved' \in BOOLEAN
  BY Zenon DEF StartupInv, TypeOK, waiting
<1>6. client' \in BOOLEAN
  BY Zenon DEF StartupInv, TypeOK, NoClient
<1>7. updates' \in BOOLEAN
  BY Zenon DEF StartupInv, TypeOK
<1> HIDE DEF Later, Connect, Sample, Check, StateChanged, ConnectTimeout, Discover, DiscoverFails, Run
<1>8. chan' \in States /\ old' \in States /\ gaveUp' \in States
  BY <1>3, TypeParts DEF StartupInv, States
<1>9. /\ file' \in Files /\ env' \in Envs /\ disk' \in BOOLEAN /\ profile' \in BOOLEAN
      /\ remote' \in {"up", "refused", "silent"}
      /\ cancelled' \in BOOLEAN
  BY <1>1, TypeParts, Zenon DEF StartupInv
<1>10. /\ \A k \in Key : cfg'[k] \in Value(k) \cup {Nil}
       /\ transport' \in {Nil, "tls", "plain"}
  BY <1>1, TypeParts, Zenon DEF StartupInv
<1> QED BY <1>2, <1>4, <1>5, <1>6, <1>7, <1>8, <1>9, <1>10, Zenon DEF TypeOK, Phases, States

\* They keep the invariant.
LEMMA LaterStep ==
  ASSUME StartupInv, Later
  PROVE  StartupInv'
<1>1. UNCHANGED <<file, env, disk, profile, cfg, transport>>
  BY DEF Later, Connect, Sample, Check, StateChanged, ConnectTimeout, Discover, DiscoverFails, Run,
         surroundings
<1>2. /\ pc \in Dialled /\ pc' \in Dialled
      /\ pc' \in Waiting => pc \in Waiting
  BY DEF Later, Connect, Sample, Check, StateChanged, ConnectTimeout, NoClient, Discover,
         DiscoverFails, Run, Waiting, Dialled
<1>3. pc \in Loaded /\ pc' \in Loaded
  BY <1>2 DEF Dialled, Loaded
<1>4. Result' = Result
  BY <1>1, SameSurroundings
<1>5. /\ TargetGood(cfg'["target"]) <=> TargetGood(cfg["target"])
      /\ CredentialsGood' <=> CredentialsGood
  BY <1>1 DEF CredentialsGood
<1>6. TypeOK' /\ SecureWhenAsked'
  BY <1>1, LaterTypes, StillSecure
<1>7. PhaseInv' /\ LocalOnlyForCause'
  <2>1. /\ pc' \notin {"profile", "load"}
        /\ file' # Broken /\ cfg' = Result' /\ cfg'["target"] # Nil
        /\ pc' \in Waiting => cfg'["connect"] > 0
    BY <1>1, <1>2, <1>3, <1>4 DEF Loaded, StartupInv, PhaseInv
  <2>2. CASE Connect
    <3>1. pc = "connect" /\ pc' = "sample" /\ UNCHANGED <<chan, gaveUp>>
      BY <2>2 DEF Connect, waiting
    <3>2. chan # Nil
      BY <3>1 DEF StartupInv, PhaseInv, Waiting
    <3> QED BY <1>2, <1>5, <2>1, <3>1, <3>2 DEF StartupInv, PhaseInv, LocalOnlyForCause, Waiting
  <2>3. CASE Sample \/ Check \/ StateChanged
    <3>1. /\ pc \in {"sample", "check", "wait"} /\ pc' \in {"check", "wait", "discover"}
          /\ UNCHANGED <<chan, gaveUp>>
      BY <2>3 DEF Sample, Check, StateChanged, waiting
    <3> QED BY <1>2, <1>5, <2>1, <3>1 DEF StartupInv, PhaseInv, LocalOnlyForCause, Waiting
  <2>4. CASE ConnectTimeout
    <3>1. pc = "wait" /\ pc' = "run" /\ gaveUp' = chan /\ client' = FALSE
      BY <2>4 DEF ConnectTimeout, NoClient
    <3>2. chan # Nil /\ cfg["connect"] > 0
      BY <3>1 DEF StartupInv, PhaseInv, Waiting
    <3> QED BY <1>1, <1>2, <1>5, <2>1, <3>1, <3>2 DEF StartupInv, PhaseInv, LocalOnlyForCause, Waiting
  <2>5. CASE Discover \/ DiscoverFails
    <3>1. pc = "discover" /\ pc' = "run" /\ gaveUp' = gaveUp /\ client' = TRUE
      BY <2>5 DEF Discover, DiscoverFails, waiting
    <3>2. gaveUp = Nil /\ TargetGood(cfg["target"]) /\ CredentialsGood
      BY <3>1 DEF StartupInv, PhaseInv, Waiting
    <3> QED BY <1>2, <1>5, <2>1, <3>1, <3>2 DEF PhaseInv, LocalOnlyForCause, Waiting
  <2>6. CASE Run
    <3>1. /\ pc = "run" /\ pc' \in {"serve", "ended", "panic"}
          /\ gaveUp' = gaveUp /\ client' = client
      BY <2>6 DEF Run, waiting
    <3> QED BY <1>1, <1>2, <1>5, <2>1, <3>1 DEF StartupInv, PhaseInv, LocalOnlyForCause, Waiting
  <2> QED BY <2>2, <2>3, <2>4, <2>5, <2>6 DEF Later
<1>8. DegradesNotDies'
  <2>1. CASE Run /\ pc' = "panic"
    <3>1. cfg = Result /\ cfg["workers"] \in Ints /\ file \in Files /\ env \in Envs /\ file # Broken
      BY <1>3, KeyTypes DEF StartupInv, TypeOK, PhaseInv
    <3>2. Wrap(2 * cfg["workers"]) \notin 0..ChanMax
      BY <2>1 DEF Run, Capacity
    <3>3. Mentioned("workers", Ints \ 0..(ChanMax \div 2))
      BY <3>1, <3>2, ExtremeWorkersAsked
    <3> QED BY <1>1, <2>1, <3>3 DEF DegradesNotDies, Mentioned
  <2>2. CASE ~(Run /\ pc' = "panic")
    <3>1. pc' \notin {"fatal", "panic"}
      BY <2>2 DEF Later, Connect, Sample, Check, StateChanged, ConnectTimeout, NoClient, Discover,
         DiscoverFails, Run
    <3> QED BY <1>1, <3>1, NoEnd
  <2> QED BY <2>1, <2>2
<1> QED BY <1>6, <1>7, <1>8 DEF StartupInv

\* The channel, the remote and signals touch nothing that the main goroutine has
\* settled.
LEMMA OutsideStep ==
  ASSUME StartupInv, Channel \/ RemoteChanges \/ Signal
  PROVE  StartupInv'
<1>1. UNCHANGED <<file, env, disk, profile, pc, cfg, transport, old, gaveUp, client, batch, updates>>
  BY DEF Channel, RemoteChanges, Signal, surroundings, waiting
<1>2. chan' = chan \/ (chan # Nil /\ chan' \in {"idle", "connecting", "ready", "failure"})
  BY StartupAssumption DEF Channel, RemoteChanges, Signal
<1>3. Result' = Result
  BY <1>1, SameSurroundings
<1>4. PhaseInv'
  BY <1>1, <1>2, <1>3, StartupAssumption DEF StartupInv, PhaseInv, CredentialsGood
<1>5. DegradesNotDies' /\ SecureWhenAsked'
  BY <1>1, NoEnd, StillSecure
<1>6. LocalOnlyForCause'
  BY <1>1 DEF StartupInv, LocalOnlyForCause, CredentialsGood
<1>7. TypeOK'
  <2>1. remote' \in {"up", "refused", "silent"}
    BY DEF StartupInv, TypeOK, Channel, RemoteChanges, Signal
  <2>2. cancelled' \in BOOLEAN /\ moved' \in BOOLEAN
    BY Zenon DEF StartupInv, TypeOK, Channel, RemoteChanges, Signal, waiting
  <2>3. chan' \in States
    BY <1>2, TypeParts DEF StartupInv, States
  <2>4. /\ file' \in Files /\ env' \in Envs /\ disk' \in BOOLEAN /\ profile' \in BOOLEAN
        /\ pc' \in Phases /\ transport' \in {Nil, "tls", "plain"}
        /\ \A k \in Key : cfg'[k] \in Value(k) \cup {Nil}
    BY <1>1, TypeParts, Zenon DEF StartupInv
  <2>5. /\ old' \in States /\ gaveUp' \in States /\ client' \in BOOLEAN /\ updates' \in BOOLEAN
        /\ batch' \in Nat \ {0}
    BY <1>1, TypeParts, Zenon DEF StartupInv
  <2> QED BY <2>1, <2>2, <2>3, <2>4, <2>5, Zenon DEF TypeOK, Phases, States
<1> QED BY <1>4, <1>5, <1>6, <1>7 DEF StartupInv

\* The invariant holds always.
LEMMA StartupAlways == Spec => []StartupInv
<1>1. ASSUME StartupInv, [Next]_vars PROVE StartupInv'
  <2>1. CASE StartProfile
    BY <1>1, <2>1, StartProfileStep
  <2>2. CASE Load
    BY <1>1, <2>2, LoadStep
  <2>3. CASE OpenCache
    BY <1>1, <2>3, OpenCacheStep
  <2>4. CASE Dial
    BY <1>1, <2>4, DialStep
  <2>5. CASE Later
    BY <1>1, <2>5, LaterStep
  <2>6. CASE Channel \/ RemoteChanges \/ Signal
    BY <1>1, <2>6, OutsideStep
  <2>7. CASE UNCHANGED vars
    <3>1. UNCHANGED <<file, env, disk, profile, remote, cancelled, pc, cfg, transport, chan, old,
                      moved, gaveUp, client, batch, updates>>
      BY <2>7 DEF vars, surroundings, waiting
    <3>2. TypeOK'
      <4>1. pc' \in Phases
        BY <1>1, <3>1 DEF StartupInv, TypeOK, Phases
      <4>2. \A k \in Key : cfg'[k] \in Value(k) \cup {Nil}
        BY <1>1, <3>1 DEF StartupInv, TypeOK
      <4> QED BY <1>1, <3>1, <4>1, <4>2, EarlyTypes DEF StartupInv
    <3>3. Result' = Result
      BY <3>1, SameSurroundings
    <3>4. PhaseInv'
      BY <1>1, <3>1, <3>3 DEF StartupInv, PhaseInv, CredentialsGood
    <3>5. DegradesNotDies' /\ SecureWhenAsked'
      BY <1>1, <3>1, NoEnd, StillSecure
    <3>6. LocalOnlyForCause'
      BY <1>1, <3>1 DEF StartupInv, LocalOnlyForCause, CredentialsGood
    <3> QED BY <3>2, <3>4, <3>5, <3>6 DEF StartupInv
  <2> QED BY <1>1, <2>1, <2>2, <2>3, <2>4, <2>5, <2>6, <2>7 DEF Next, Step, Later
<1> QED BY <1>1, StartupInit, PTL DEF Spec

-----------------------------------------------------------------------------
(* Theorems *)

\* The state keeps its types; in particular whatever an environment or a file holds,
\* Load leaves a value of the right type, or none, under each key, and whatever batch
\* size a server announces, that of the client stays positive.
THEOREM StartupTypes == Spec => []TypeOK
<1>1. StartupInv => TypeOK
  BY DEF StartupInv
<1> QED BY <1>1, StartupAlways, PTL

\* No trouble with the remote ends the program, only with the profile, the file, the
\* target or the cache directory, and no malformed text makes it panic, only a number of
\* workers that somebody asked for and that no channel can be made for.
THEOREM StartupDegrades == Spec => []DegradesNotDies
<1>1. StartupInv => DegradesNotDies
  BY DEF StartupInv
<1> QED BY <1>1, StartupAlways, PTL

\* No plain text goes over the wire where the target, or for a target without scheme the
\* flag or a file, asks for TLS by the documented precedence.
THEOREM StartupSecure == Spec => []SecureWhenAsked
<1>1. StartupInv => SecureWhenAsked
  BY DEF StartupInv
<1> QED BY <1>1, StartupAlways, PTL

\* The program has a client exactly if the target and the TLS files are good and it did
\* not wait in vain for a connection; a discovery that failed is no reason for none.
THEOREM StartupLocalOnly == Spec => []LocalOnlyForCause
<1>1. StartupInv => LocalOnlyForCause
  BY DEF StartupInv
<1> QED BY <1>1, StartupAlways, PTL

=============================================================================
