------------------------- MODULE MCChannelPipeline -------------------------
(* Source, decoder, one forwarding stage in batch mode, output.             *)
EXTENDS ChannelPipeline

MCCapacity == <<1, 1, 2, 1>>
MCBatchSize == <<1, 1, 2, 1>>
MCCodecDelay == (2 :> 1) @@ (4 :> 0)

(* A camera's stream begins with a keyframe; later packets may be either.   *)
CameraPacket == \E isKey \in BOOLEAN : (produced = 0 => isKey) /\ OnPacket(isKey)

CameraNext == \/ ApiCall
              \/ CtlStep
              \/ CameraPacket
              \/ \E i \in Stages : WorkerStep(i)

CameraSpec == /\ Init /\ [][CameraNext]_vars
              /\ WF_vars(CtlStep)
              /\ \A i \in Stages : WF_vars(WorkerStep(i))
=============================================================================
