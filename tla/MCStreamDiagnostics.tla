------------------------ MODULE MCStreamDiagnostics ------------------------
(* The instance of StreamDiagnostics that TLC checks; its bounds are numbers. *)
EXTENDS StreamDiagnostics
=============================================================================
