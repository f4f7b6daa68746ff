--------------------------- MODULE AgentServicesMC ---------------------------
(***************************************************************************)
(* The services an agent consults for every request: the key store that    *)
(* says which keys sign for the caller, the replay store that says whether *)
(* the request is a copy, the revocation checker that says whether the key *)
(* is still good, and the configuration service that says what the         *)
(* caller's packages target.  They share no state, so a behaviour runs one *)
(* of them; the others stay as they start.                                 *)
(***************************************************************************)
EXTENDS AuthorizationKeys, ReplayStore, RevocationLists, ConfigService

VARIABLE part    \* the service this behaviour runs
servicesVars == <<keyVars, replayVars, revocationVars, configVars, part>>

ServicesInit ==
  /\ part \in {"keys", "replay", "revocations", "config"}
  /\ KeysInit /\ ReplayInit /\ RevocationInit /\ ConfigInit
  /\ part # "replay" => /\ profile = CHOOSE p \in Profiles : TRUE
                        /\ expiresOf = [s \in Signatures |-> CHOOSE x \in Expires : TRUE]
  /\ part # "config" => mode = CHOOSE m \in StartModes : TRUE

KeysOnly == part = "keys" /\ UNCHANGED <<replayVars, revocationVars, configVars, part>>
ReplayOnly == part = "replay" /\ UNCHANGED <<keyVars, revocationVars, configVars, part>>
RevocationsOnly == part = "revocations" /\ UNCHANGED <<keyVars, replayVars, configVars, part>>
ConfigOnly == part = "config" /\ UNCHANGED <<keyVars, replayVars, revocationVars, part>>

ServicesNext ==
  \/ KeysOnly /\ KeysNext
  \/ ReplayOnly /\ ReplayNext
  \/ RevocationsOnly /\ RevocationNext
  \/ ConfigOnly /\ ConfigNext

\* A goroutine that can run does, a registry call ends by FetchTimeout, and a
\* source call by the source's HTTP timeout.  A Start's loop begins where its
\* load ends, so one condition covers the two.
ServicesSpec ==
  /\ ServicesInit /\ [][ServicesNext]_servicesVars
  /\ \A l \in Lookups : WF_servicesVars(KeysOnly /\ GoesOn(l))
  /\ \A i \in Starts : WF_servicesVars(ConfigOnly /\ (Loading(i) \/ Refreshing(i)))
=============================================================================
