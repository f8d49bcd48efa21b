------------------------- MODULE MC_ScanNodeRetry -------------------------
(* The retry loop of one StreamingScanNode with rpcRetries = 3 and        *)
(* partials of up to 2 rows, against a cancellation at any point.         *)
EXTENDS ScanNodeRetry

MCMaxRows == 2
MCRpcRetries == 3
=============================================================================
