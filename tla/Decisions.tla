------------------------------ MODULE Decisions -----------------------------
(***************************************************************************)
(* What becomes of a policy and of an extended community on their way      *)
(* through the program.  A policy is read from rogg.conf, compiled for the *)
(* server, listed for the API, sent in gRPC messages, added again from     *)
(* them and written to rogg.conf; the community takes the steps of module  *)
(* CommunityForms.  The specification takes any number of these steps; the *)
(* properties say that what is decided, and what is shown, stays the same. *)
(***************************************************************************)
EXTENDS Policy, CommunityForms

CONSTANTS
    Sets,           \* the defined sets of the config
    Starts,         \* a policy, called "P", and an extended community to start from
    Probes          \* the routes with their paths to decide on

ConfigWith(d) == [DefaultConfig EXCEPT !.sets = Sets, !.policies = <<d>>]
ASSUME PoliciesCompile == \A start \in Starts : ContextOk(ConfigWith(start[1]))

VARIABLES
    origin,     \* the definition at the start
    form,       \* where the policy is: "config", "file", "server", "listed", "message"
    def,        \* the definition, in "config" and "listed"
    text,       \* rogg.conf, in "file"
    policy,     \* the compiled policy, in "server"
    message,    \* the statements of the gRPC message, in "message"
    lost        \* a gRPC message had no field for something

vars == <<origin, form, def, text, policy, message, lost, communityVars>>
policyVars == <<origin, form, def, text, policy, message, lost>>

CompiledFrom(d) == ContextFrom(ConfigWith(d)).policies["P"]
NoDefinition == [name |-> "P", statements |-> <<>>]

Init ==
    /\ \E start \in Starts : origin = start[1] /\ first = start[2]
    /\ form = "config" /\ def = origin /\ ec = first
    /\ text = <<>> /\ policy = <<>> /\ message = <<>> /\ lost = FALSE

-----------------------------------------------------------------------------
\* Loading a config or AddPolicy: PolicyContext::from_config, Policy::from_config.
Compile ==
    /\ form = "config" /\ ContextOk(ConfigWith(def))
    /\ form' = "server" /\ policy' = CompiledFrom(def) /\ def' = NoDefinition
    /\ UNCHANGED <<origin, text, message, lost, communityVars>>
\* ListPolicies in the server.
List ==
    /\ form = "server"
    /\ form' = "listed" /\ def' = [name |-> "P", statements |-> Map(policy, to_config)] /\ policy' = <<>>
    /\ UNCHANGED <<origin, text, message, lost, communityVars>>
\* ListPolicies in the gRPC service, and AddPolicy with what it answered.
Answer ==
    /\ form = "listed"
    /\ form' = "message" /\ message' = Map(def.statements, policy_info_to_proto) /\ def' = NoDefinition
    /\ lost' = (lost \/ \E st \in Range(def.statements) : ~ProtoExpressible(st))
    /\ UNCHANGED <<origin, text, policy, communityVars>>
Add ==
    /\ form = "message"
    /\ form' = "config" /\ def' = [name |-> "P", statements |-> Map(message, proto_to_statement_config)] /\ message' = <<>>
    /\ UNCHANGED <<origin, text, policy, lost, communityVars>>
\* persist_config and load.
Save ==
    /\ form = "config"
    /\ form' = "file" /\ text' = to_conf_str(ConfigWith(def)) /\ def' = NoDefinition
    /\ UNCHANGED <<origin, policy, message, lost, communityVars>>
Load ==
    /\ form = "file" /\ from_conf_str(text).ok
    /\ form' = "config" /\ def' = from_conf_str(text).config.policies[1] /\ text' = <<>>
    /\ UNCHANGED <<origin, policy, message, lost, communityVars>>

Next == Compile \/ List \/ Answer \/ Add \/ Save \/ Load \/ (CommunityNext /\ UNCHANGED policyVars)
Spec == Init /\ [][Next]_vars

-----------------------------------------------------------------------------
(***************************************************************************)
(* Properties.                                                             *)
(***************************************************************************)

TypeOK ==
    /\ form \in {"config", "file", "server", "listed", "message"} /\ lost \in BOOLEAN
    /\ ec \in ExtCommunities

Verdicts(p) == [probe \in Probes |-> apply_import(<<p>>, probe[1], probe[2])]
\* Whatever forms a policy goes through, it accepts the same routes and edits
\* them in the same way (build_statement, to_config, the gRPC messages, the
\* policy block of rogg.conf), unless a message dropped a part of it.
DecidesAlike ==
    LET now == CASE form \in {"config", "listed"} -> CompiledFrom(def)
                 [] form = "server" -> policy
                 [] OTHER -> CompiledFrom(origin)
    IN lost \/ Verdicts(now) = Verdicts(CompiledFrom(origin))

\* Under the policies a peer names, the session type matters for exactly the
\* routes that none of the existing ones decides on: an external peer's are
\* rejected, an internal peer's accepted (resolve_policies, RFC 8212).
FallbackDecidesTheRest ==
    form = "server" =>
        LET ctx == [sets |-> Sets, policies |-> ("P" :> policy)]
        IN \A names \in {<<>>, <<"missing">>, <<"missing", "P">>, <<"P", "P">>} : \A probe \in Probes :
               LET by(ebgp) == apply_import(resolve_policies(ctx, names, ebgp), probe[1], probe[2])
                   path == [probe[2] EXCEPT !["lp"] = IF @ = <<>> THEN <<100>> ELSE @]
                   decided == "P" \in Range(names) /\ \E i \in DOMAIN policy : StatementMatches(policy[i], probe[1], path)
               IN IF decided THEN by(TRUE) = by(FALSE)
                  ELSE ~by(TRUE).accepted /\ by(FALSE).accepted /\ by(TRUE).path = path

\* A prefix list has the routes its lines name: the first bits are those of the
\* prefix, the length is within ge and le, which default to the prefix's own
\* length and the longest one (PrefixMatch, IpNetwork::contains).
Bits(net) == (net.address[1] * 256 + net.address[2]) * 256 + net.address[3]
Named(l, net) ==
    LET network == NetOf[l[1]]
        ge == IF l[2] \in {None, "exact"} THEN network.len ELSE NumberOf[l[2]]
        le == IF l[2] = "exact" \/ <<l[2], l[3]>> = <<None, None>> THEN network.len
              ELSE IF l[3] = None THEN MaxLen(network.v) ELSE NumberOf[l[3]]
    IN /\ network.v = 4 /\ net.v = 4 /\ ge <= net.len /\ net.len <= le
       /\ Bits(net) \div 2^(24 - network.len) = Bits(network) \div 2^(24 - network.len)
NamesRoutes(set) ==
    LET lines == (CHOOSE s \in Range(Sets["prefix-list"]) : s.name = set.name).lines
    IN \A probe \in Probes : probe[1].kind = "prefix" /\ probe[1].net.v = 4 =>
           (\E pm \in set.elements : PrefixMatches(pm, probe[1].net)) = (\E l \in Range(lines) : Named(l, probe[1].net))
PrefixListsNameRoutes ==
    \A st \in Range(policy) : "prefix-set" \in DOMAIN st.conds =>
        LET set == st.conds["prefix-set"].set
        IN NamesRoutes(set) \/ \E pm \in set.elements : pm.net.len = 0
\* IpNetwork::contains, for networks of length 0 too: "Check if another prefix
\* is contained within this network".
DefaultContainsAll ==
    \A st \in Range(policy) : "prefix-set" \in DOMAIN st.conds => NamesRoutes(st.conds["prefix-set"].set)

\* Policies decide as they are written: a prefix list matches what its lines name,
\* and what no policy decides on is left to the session type (PrefixMatch,
\* resolve_policies).
DecidesAsWritten == TypeOK /\ FallbackDecidesTheRest /\ PrefixListsNameRoutes
=============================================================================
