---------------------------- MODULE MCSinglePath ----------------------------
(* SinglePath has no parameters: TLC explores it whole.                    *)
EXTENDS SinglePath
=============================================================================
