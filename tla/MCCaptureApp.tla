---------------------------- MODULE MCCaptureApp ----------------------------
(* The cameras the drivers of this repository are, and small screens.      *)
EXTENDS CaptureApp

(* Sizes that fit, that are too wide, too high, both, or just right.       *)
SmallSizes == {<<2, 2>>, <<4, 3>>, <<6, 2>>, <<2, 5>>, <<8, 6>>}

(* JPEG pictures, which may follow one another: small, wide, and odd.      *)
JpegSizes == {<<2, 2>>, <<6, 2>>, <<3, 5>>}

Camera(mode, formats, counts, index, stops) ==
  [mode |-> mode, formats |-> formats,
   sizes |-> IF "MJPEG" \in Range(formats) THEN JpegSizes ELSE SmallSizes,
   counts |-> counts, index |-> index, stops |-> stops]

Myuvc     == Camera("streaming", <<"YUYV">>, TRUE, FALSE, FALSE)
Myvivi    == Camera("streaming", <<"YUYV">>, FALSE, TRUE, TRUE)
Ov7740    == Camera("readwrite", <<"RGB565", "RGB24">>, FALSE, FALSE, FALSE)
LinuxUvc  == Camera("streaming", <<"YUYV">>, FALSE, TRUE, TRUE)
LinuxUvcM == Camera("streaming", <<"RGB24", "MJPEG">>, FALSE, TRUE, TRUE)

AllCameras == {Myuvc, Myvivi, Ov7740, LinuxUvc, LinuxUvcM}

(* src/video2lcd/README.md: the OV7740 driver for the CMOS camera, the     *)
(* UVC driver of Linux for the USB camera (here one that sends YUYV).      *)
NamedCameras == {Ov7740, LinuxUvc}

Fb  == [w |-> 4, h |-> 3, bpp |-> 16]      \* 5th/video2lcd/main.c:58
Crt == [w |-> 5, h |-> 3, bpp |-> 32]      \* video2lcd/main.c:58

BothDisplays == {Fb, Crt}
CrtOnly == {Crt}

=============================================================================
