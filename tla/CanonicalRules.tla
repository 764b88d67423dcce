--------------------------- MODULE CanonicalRules ---------------------------
(***************************************************************************)
(* What canonical.rs demands of one attachment of a durable candidate once *)
(* its events are read.  Shared by the model of the protocol that produces *)
(* the events and by the model of the assembly that consumes them.         *)
(***************************************************************************)

\* type: "embedded" ('i'), "reference" ('r') or another; terminal: the
\* AttachmentTerminal, or "none"; child, unsupported: whether a candidate in
\* the ledger claims the attachment, one to be written or one that is not.
AttachmentAssembles(type, terminal, child, unsupported) ==
  IF type = "embedded"
  THEN /\ terminal \notin {"Payload", "Reference"}
       /\ child \/ unsupported \/ terminal = "Missing"
       /\ child \/ unsupported => terminal = "none"
  ELSE /\ ~child /\ ~unsupported /\ terminal # "none"
       /\ terminal = "Reference" => type = "reference"
       /\ terminal = "Payload" => type # "reference"
=============================================================================
