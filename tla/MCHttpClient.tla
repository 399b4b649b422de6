---------------------------- MODULE MCHttpClient ----------------------------
(* Instances for TLC: a response buffer of two bytes.  Two requests, so that *)
(* what the first leaves behind is met by the second, with frame ids that    *)
(* wrap on the way and one cut through headers (MCHttpClient); one request,  *)
(* with bodies that fit and that do not and two cuts, under fairness         *)
(* (MCHttpClientLive); one request and one cut, for what the code does not   *)
(* keep (MCHttpClientSplit).                                                 *)
EXTENDS HttpClient
=============================================================================
