--------------------------- MODULE MCWorkerProtocol ---------------------------
(***************************************************************************)
(* A store with two folders: a message with a long attachment and an       *)
(* embedded message in the root folder, one with long attachment           *)
(* properties in its child, and perhaps a recovered copy of the first that *)
(* embeds messages deeper than the limit.                                  *)
(***************************************************************************)
EXTENDS WorkerProtocol

CONSTANTS root, inbox, mail, inner, note, copy, wrap, deep

MCFolders == {root, inbox}
MCKids == (root :> <<inbox>>) @@ (inbox :> <<>>)
MCNormal == (root :> <<mail>>) @@ (inbox :> <<>>)
MCAssociated == (root :> <<>>) @@ (inbox :> <<note>>)
MCRecoverable == {<<>>, <<copy>>}
MCOrphans == <<>>
MCMessages == {mail, inner, note, copy, wrap, deep}
MCNodeId == (mail :> 1) @@ (inner :> 2) @@ (note :> 3) @@ (copy :> 1)
            @@ (wrap :> 4) @@ (deep :> 5)

Attachment(kind, child, longData, longProps) ==
    [kind |-> kind, child |-> child, longData |-> longData,
     longProps |-> longProps]
MCAttachments ==
    (mail :> <<Attachment("data", mail, TRUE, FALSE),
               Attachment("embedded", inner, FALSE, TRUE)>>)
    @@ (inner :> <<Attachment("data", inner, TRUE, FALSE)>>)
    @@ (note :> <<Attachment("reference", note, FALSE, TRUE)>>)
    @@ (copy :> <<Attachment("embedded", wrap, FALSE, FALSE)>>)
    @@ (wrap :> <<Attachment("embedded", deep, FALSE, FALSE)>>)
    @@ (deep :> <<>>)

MCLongBody == {mail, inner}
MCSupported == {mail, inner, copy, wrap}
MCIsolated == {{}, {ChildUnit(root, 1)}, {FolderUnit(root)}}
=============================================================================
