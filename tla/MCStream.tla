------------------------------ MODULE MCStream ------------------------------
(* A frame of seven blocks with every section, the audio between the video as
   on the bus, and packets of three blocks, the most that the buffers hold here:
   a frame is more than two packets, and redundant copies straddle two frames. *)
EXTENDS Stream

MCFrame == <<"header", "subcode", "vaux", "audio", "video", "audio", "video">>
MCFlagSets == {{}, {"SEPARATED_AUDIO_STREAM"}, {"NO_VIDEO_STREAM"}}
=============================================================================
