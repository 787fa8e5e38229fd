---------------------------- MODULE MCLiveTrace ----------------------------
(* Values for the constants of LiveTrace.                                  *)
EXTENDS LiveTrace

\* One of the events holds a string that protobuf refuses to marshal.
LastUnencodable == {MaxEvents}
=============================================================================
