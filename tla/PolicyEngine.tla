---------------------------- MODULE PolicyEngine ----------------------------
(***************************************************************************)
(* The pure decisions of PolicyEngine (src/core/policy-engine.ts) over the *)
(* configured policy.  A raw message is a record that carries what the     *)
(* code extracts from it: the size of its payload, and what the adapter's  *)
(* verify() and normalize() will answer for it (verdict, kind,             *)
(* commandName).  Strings are model values; LowerCase stands for           *)
(* String.prototype.toLowerCase on sender names.                           *)
(***************************************************************************)
EXTENDS Naturals, Sequences

CONSTANTS
  Channel,      \* the seven channel kinds (a subset of them in a run)
  Sender,       \* sender identifiers
  Command,      \* command names
  NoCommand,    \* commandName is undefined
  Token,        \* provider strings used as message ids and nonces
  NoNonce,      \* raw.nonce is undefined
  LowerCase,    \* toLowerCase on sender identifiers
  Rules         \* policy.rules, in configuration order

\* How verify() and normalize() end: the signature is good, it is not, or
\* one of the two throws (bad JSON, bad hex, missing field).
Verdict == {"authenticated", "unauthenticated", "throws"}

RawInboundMessage ==
  [ id          : Token,
    channel     : Channel,
    senderId    : Sender,
    nonce       : Token \cup {NoNonce},
    bytes       : Nat,
    verdict     : Verdict,
    kind        : {"text", "audio", "file", "command"},
    commandName : Command \cup {NoCommand} ]

\* An absent allowlist and an empty one are treated alike by the code: both
\* are the empty set here.
BridgePolicyRule ==
  [ sourceChannel         : Channel,
    requireAuthentication : BOOLEAN,
    allowedSenders        : SUBSET Sender,
    allowedCommands       : SUBSET Command,
    maxPayloadBytes       : Nat,
    fanoutTargets         : Seq(Channel) ]

ASSUME PolicyAssumption ==
  /\ NoCommand \notin Command
  /\ NoNonce \notin Token
  /\ LowerCase \in [Sender -> Sender]
  /\ Rules \in Seq(BridgePolicyRule)

-----------------------------------------------------------------------------
\* rules.find(...): the first rule of a channel is the one that counts.
HasRule(source) == \E i \in DOMAIN Rules : Rules[i].sourceChannel = source

ResolveRule(source) ==
  Rules[CHOOSE i \in DOMAIN Rules :
          /\ Rules[i].sourceChannel = source
          /\ \A j \in DOMAIN Rules : j < i => Rules[j].sourceChannel # source]

WithinPayloadLimit(m, rule) == m.bytes <= rule.maxPayloadBytes

\* No allowlist admits every sender.
SenderAllowed(m, rule) ==
  \/ rule.allowedSenders = {}
  \/ LowerCase[m.senderId] \in {LowerCase[s] : s \in rule.allowedSenders}

\* Mutant: commands are treated like senders, no allowlist admits them all.
CommandAllowedUnlessListed(m, rule) ==
  m.kind = "command" => \/ rule.allowedCommands = {}
                        \/ m.commandName \in rule.allowedCommands

\* No allowlist admits no command; a command without a name is never allowed.
CommandAllowed(m, rule) ==
  m.kind = "command" => m.commandName \in rule.allowedCommands

AuthenticationMet(m, rule) ==
  rule.requireAuthentication => m.verdict = "authenticated"

=============================================================================
