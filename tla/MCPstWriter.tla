----------------------------- MODULE MCPstWriter -----------------------------
EXTENDS PstWriter

Plain == [id |-> "plain", folder |-> <<1, 1, 2>>, associated |-> FALSE, direct |-> FALSE,
          names |-> <<"a">>, recipients |-> 1, attachments |-> <<>>,
          streams |-> <<>>, large |-> <<11>>, pc |-> 3]

Attached(kind, size) ==
  [kind |-> kind, size |-> size, streams |-> <<>>, large |-> <<>>, pc |-> 3]

(* More subnodes than one block holds, an external recipient table. *)
Inner == [recipients |-> 1, streams |-> <<4>>, large |-> <<11>>, pc |-> 3,
          attachments |-> <<Attached("reference", 0)>>]

Carrier == [id |-> "carrier", folder |-> <<1, 1>>, associated |-> TRUE, direct |-> FALSE,
            names |-> <<"a", "b">>, recipients |-> 3, large |-> <<>>, pc |-> 12,
            streams |-> <<>>,
            attachments |-> <<[kind |-> "embedded", message |-> Inner, streams |-> <<>>,
                               large |-> <<>>, pc |-> 3]>>]

(* Two levels of a data tree, and attachments of every other kind. *)
Streamed == [id |-> "streamed", folder |-> <<1, 0>>, associated |-> FALSE, direct |-> TRUE,
             names |-> <<"c">>, recipients |-> 0, streams |-> <<95>>, large |-> <<>>, pc |-> 3,
             attachments |-> <<[Attached("spooled", 12) EXCEPT !.streams = <<4>>],
                               Attached("ole", 0)>>]

(* One attachment more than its one-page table has room for. *)
Refused == [id |-> "refused", folder |-> <<1, 1>>, associated |-> FALSE, direct |-> TRUE,
            names |-> <<"d", "e">>, recipients |-> 0, streams |-> <<>>, large |-> <<>>, pc |-> 3,
            attachments |-> <<Attached("reference", 0), Attached("binary", 4),
                              Attached("reference", 0)>>]

BodySet == {Inner}

MessageSet == {Plain, Carrier, Streamed, Refused}

FolderSet == {[key |-> <<1, 1, 2>>, role |-> "mail"], [key |-> <<1, 1>>, role |-> "mail"],
              [key |-> <<1, 0>>, role |-> "deleted"]}
=============================================================================
