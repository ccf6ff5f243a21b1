--------------------------- MODULE MCMediaCatalogue ---------------------------
(***************************************************************************)
(* MediaCatalogue for TLC: an image file a GigE camera is named after, a   *)
(* video file, and a DC1394 camera that is called like the webcam.         *)
(***************************************************************************)
EXTENDS MediaCatalogue

CONSTANTS picture, video, webcam

MCNames == {picture, video, webcam}
MCImages == {picture}
MCVideos == {video}
MCDc1394 == {webcam}
MCGige == {picture, webcam}
=============================================================================
