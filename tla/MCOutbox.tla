------------------------------ MODULE MCOutbox -------------------------------
(* Outbox on small instances. *)
EXTENDS OutboxProperties

\* Two replies: one of two chunks with an attachment that may fail, one of a chunk.
MCChunks == <<2, 1>>
MCFiles == <<1, 0>>
MCFlaky == {<<1, 3>>}

\* Three replies of one chunk, the second with two attachments that may fail: the one can
\* be shown, and shown again after a crash, before the other buries the record.
MCChunks3 == <<1, 1, 1>>
MCFiles3 == <<0, 2, 0>>
MCFlaky3 == {<<2, 2>>, <<2, 3>>}

\* One reply of one chunk.
MCOne == <<1>>
MCNone == <<0>>
=============================================================================
