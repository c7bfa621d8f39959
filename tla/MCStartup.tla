----------------------------- MODULE MCStartup -----------------------------
(* Instances of Startup for TLC. *)
EXTENDS Startup, FiniteSets, TLC

T(s, h) == [scheme |-> s, host |-> h]

Targets == {T("grpcs", "good"), T("grpc", "good"), T("none", "good"), T("other", "good"),
            T("grpcs", "odd"), T("grpc", "empty"), T("none", "bad")}

\* Values of the keys besides the target.
Others == [cert |-> {"one", "bad"}, key |-> {"one", "two"}, ca |-> {"good", "bad"},
           workers |-> {-8, -1, 0, 2, 3, 7}, connect |-> {0, 2}, request |-> {0}, tls |-> BOOLEAN]

\* One of these keys, in the environment also with a text that does not parse.
One(extra) == UNION {{k :> v : v \in Others[k] \cup extra[k]} : k \in DOMAIN Others}

NoExtra == [k \in DOMAIN Others |-> {}]
Texts   == [k \in DOMAIN Others |-> IF k \in {"workers", "connect", "request"}
                                    THEN {Malformed} ELSE {}]

\* Every setting of the file with every one of the environment.
MCFiles == {Absent, Broken, <<>>} \cup
           {"target" :> t : t \in {T("grpcs", "good"), T("grpc", "good"), T("none", "good")}} \cup
           {("target" :> T("none", "good")) @@ s : s \in One(NoExtra)}
MCEnvs  == {<<>>} \cup {"target" :> t : t \in Targets} \cup One(Texts)

=============================================================================
