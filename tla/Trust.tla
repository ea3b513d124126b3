-------------------------------- MODULE Trust --------------------------------
(***************************************************************************)
(* TasteKit's MCP servers: `mcp add`, `inspect` and `bind`, `trust         *)
(* pin-mcp` and `audit`.  Servers go up and down and change what they list *)
(* at any moment, also while a bind asks them twice.                       *)
(***************************************************************************)
EXTENDS Integers, Sequences, SequencesExt

CONSTANTS
  Servers,  \* [command, args]: what a server is started as, or its URL
  Listings, \* what a server may list
  Names     \* in the registry

ASSUME TrustAssumption ==
  /\ Listings # {}
  \* The names and schemas of tools, their annotations, the other names.
  /\ Listings \subseteq [tools : STRING, hints : STRING,
                          resources : SUBSET STRING, prompts : SUBSET STRING]

VARIABLES
  world,      \* Servers -> [up, listing]
  registry,   \* mcp/servers.json: name -> server
  inspected,  \* what the user has read from inspect: name -> [print, of]
  pins,       \* trust.v1.json: [made, servers], a sequence of [ref, print, mode]
  bindings,   \* bindings.v1.json: a set of [name, ref, listed, print, of]
  bind,       \* the bind that runs: [pc, left, done, ...], or Off
  audit,      \* the last audit: [bound, violations, pinned]
  vouched     \* history: ref -> what was pinned last, [print, of]

\* The fields `of` are history: what the server had when it was asked for
\* the fingerprint.
trustVars == <<world, registry, inspected, pins, bindings, bind, audit, vouched>>

Off == [pc |-> "off"]
NoAudit == [bound |-> {}]
Map(f, x, y) == [z \in DOMAIN f \cup {x} |-> IF z = x THEN y ELSE f[z]]

(* The trust policy names a server by its URL or its command alone.        *)
Ref(server) == server.command

(* What a client may see of a listing.  listResources and listPrompts take *)
(* a call that fails for an empty list.                                    *)
Shown(l) == {[l EXCEPT !.resources = r, !.prompts = p] :
              r \in {l.resources, {}}, p \in {l.prompts, {}}}

(* getFingerprint: the name in the registry and what is listed, without    *)
(* the annotations, of which a binding keeps the risk hints.               *)
Hashed(l) == [tools |-> l.tools, resources |-> l.resources, prompts |-> l.prompts]
Fingerprint(name, l) == [name |-> name, listed |-> Hashed(l)]

-----------------------------------------------------------------------------
(* The servers.                                                            *)

Upgrade(s, listing) ==
  /\ world' = [world EXCEPT ![s].listing = listing]
  /\ UNCHANGED <<registry, inspected, pins, bindings, bind, audit, vouched>>

Toggle(s) ==
  /\ world' = [world EXCEPT ![s].up = ~world[s].up]
  /\ UNCHANGED <<registry, inspected, pins, bindings, bind, audit, vouched>>

-----------------------------------------------------------------------------
(* Commands.                                                               *)

(* mcp add: a name that is taken is overwritten.  A bind reads the         *)
(* registry when it begins: the user adds no server meanwhile.             *)
Add(name, s) ==
  /\ bind.pc = "off"
  /\ registry' = Map(registry, name, s)
  /\ UNCHANGED <<world, inspected, pins, bindings, bind, audit, vouched>>

(* trust init.                                                             *)
InitPolicy ==
  /\ ~pins.made
  /\ pins' = [made |-> TRUE, servers |-> <<>>]
  /\ UNCHANGED <<world, registry, inspected, bindings, bind, audit, vouched>>

Inspect(name) ==
  /\ name \in DOMAIN registry
  /\ LET s == world[registry[name]] IN
     /\ s.up
     /\ \E l \in Shown(s.listing) :
          inspected' = Map(inspected, name,
                           [print |-> Fingerprint(name, l), of |-> s.listing])
  /\ UNCHANGED <<world, registry, pins, bindings, bind, audit, vouched>>

\* Mutant: a server that is pinned already is pinned once more.
PinMCPServerAlways(policy, ref, print, mode) ==
  Append(policy, [ref |-> ref, print |-> print, mode |-> mode])

PinMCPServer(policy, ref, print, mode) ==
  LET at == SelectInSeq(policy, LAMBDA p : p.ref = ref)
      pin == [ref |-> ref, print |-> print, mode |-> mode]
  IN IF at # 0 THEN [policy EXCEPT ![at] = pin] ELSE Append(policy, pin)

(* trust pin-mcp: the user pins what inspect has shown, for the server as  *)
(* the registry knows it now.                                              *)
Pin(name, mode) ==
  /\ name \in DOMAIN inspected
  /\ LET ref == Ref(registry[name]) IN
     /\ pins' = [made |-> TRUE, servers |->
                   PinMCPServer(pins.servers, ref, inspected[name].print, mode)]
     /\ vouched' = Map(vouched, ref, inspected[name])
  /\ UNCHANGED <<world, registry, inspected, bindings, bind, audit>>

(* mcp bind, with or without --server: each server is asked for what it    *)
(* lists, and then for it again to take the fingerprint.                   *)
Bind(names) ==
  /\ bind.pc = "off" /\ names # {}
  /\ bind' = [pc |-> "list", left |-> names, done |-> {}]
  /\ UNCHANGED <<world, registry, inspected, pins, bindings, audit, vouched>>

ListTools ==
  /\ bind.pc = "list"
  /\ \E name \in bind.left :
       LET s == world[registry[name]] IN
       \E l \in Shown(s.listing) :
         bind' = IF s.up
                   THEN [pc |-> "print", left |-> bind.left \ {name},
                         done |-> bind.done, name |-> name, listed |-> l]
                   ELSE [bind EXCEPT !.left = bind.left \ {name}]
  /\ UNCHANGED <<world, registry, inspected, pins, bindings, audit, vouched>>

(* A server that does not answer is left out.                              *)
GetFingerprint ==
  /\ bind.pc = "print"
  /\ LET s == registry[bind.name] IN
     \E l \in Shown(world[s].listing) :
       LET bound == [name |-> bind.name, ref |-> Ref(s), listed |-> bind.listed,
                     print |-> Fingerprint(bind.name, l), of |-> world[s].listing]
       IN bind' = [pc |-> "list", left |-> bind.left,
                   done |-> bind.done \cup IF world[s].up THEN {bound} ELSE {}]
  /\ UNCHANGED <<world, registry, inspected, pins, bindings, audit, vouched>>

(* The file holds what this bind has found and nothing else.               *)
SaveBindings ==
  /\ bind.pc = "list" /\ bind.left = {}
  /\ bindings' = bind.done /\ bind' = Off
  /\ UNCHANGED <<world, registry, inspected, pins, audit, vouched>>

Violation(b, type, severity) == [name |-> b.name, type |-> type, severity |-> severity]

(* TrustAuditor.audit, without a baseline, as the command calls it.  Every *)
(* binding has a fingerprint.                                              *)
Violations(policy, bound) ==
  UNION { LET at == SelectInSeq(policy, LAMBDA p : p.ref = b.ref) IN
          CASE at = 0 -> {Violation(b, "unpinned_server", "warning")}
            [] at # 0 /\ policy[at].print # b.print ->
                 {Violation(b, "fingerprint_mismatch",
                            IF policy[at].mode = "strict" THEN "error" ELSE "warning")}
            [] OTHER -> {} : b \in bound }

Audit ==
  /\ pins.made
  /\ audit' = [bound |-> bindings, violations |-> Violations(pins.servers, bindings),
               pinned |-> vouched]
  /\ UNCHANGED <<world, registry, inspected, pins, bindings, bind, vouched>>

TrustInit ==
  /\ world = [s \in Servers |-> [up |-> TRUE, listing |-> CHOOSE l \in Listings : TRUE]]
  /\ registry = [n \in {} |-> 0] /\ inspected = [n \in {} |-> 0]
  /\ pins = [made |-> FALSE, servers |-> <<>>]
  /\ bindings = {} /\ bind = Off /\ audit = NoAudit
  /\ vouched = [r \in {} |-> 0]

BindSteps == ListTools \/ GetFingerprint \/ SaveBindings

(* The commands and the servers, without a bound.                          *)
TrustSteps ==
  \/ \E s \in Servers : Toggle(s) \/ \E l \in Listings : Upgrade(s, l)
  \/ \E n \in Names :
       \/ Inspect(n) \/ \E s \in Servers : Add(n, s)
       \/ \E mode \in {"strict", "warn"} : Pin(n, mode)
  \/ Bind(DOMAIN registry) \/ \E n \in DOMAIN registry : Bind({n})
  \/ InitPolicy \/ BindSteps \/ Audit

-----------------------------------------------------------------------------
(* Properties.                                                             *)

(* No listing failed when the fingerprint was taken.                       *)
Complete(taken) == taken.print.listed = Hashed(taken.of)

(* An audit that says nothing of a bound server means that its names and   *)
(* schemas of tools, as they were bound, are those that the user pinned    *)
(* last for it under that name, unless the server changed them in the      *)
(* middle of the bind.  And of a server with a pin it says nothing if and  *)
(* only if the server had, when it was bound, all that a fingerprint       *)
(* covers as it had it when it was pinned, unless a listing failed then or *)
(* when it was bound.  A fingerprint does not cover annotations            *)
(* (getFingerprint, pinMCPServer, bindServer, TrustAuditor.audit).         *)
SilenceMeansPinned ==
  \A b \in audit.bound :
    LET reported == \E v \in audit.violations : v.name = b.name
        pinned == b.ref \in DOMAIN audit.pinned
        as == audit.pinned[b.ref]
    IN /\ ~reported =>
            /\ pinned /\ as.print.name = b.name
            /\ b.listed.tools = b.of.tools => as.print.listed.tools = b.listed.tools
       /\ pinned /\ Complete(as) /\ Complete(b) =>
            (~reported <=> as.print.name = b.name /\ Hashed(as.of) = Hashed(b.of))
=============================================================================
