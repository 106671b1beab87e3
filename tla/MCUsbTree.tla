----------------------------- MODULE MCUsbTree ------------------------------
\* A small bus for TLC: a hub at the root port with a camera, a second hub and
\* a free port; behind the second hub another device and another camera.
EXTENDS UsbHost

TwoLevels ==
    [h \in {"root", "hub1", "hub2", "hub3"} |->
        CASE h = "root" -> <<"hub1">>
          [] h = "hub1" -> <<"cam1", "hub2", None, "hub3">>
          [] h = "hub2" -> <<"disk", "cam2">>
          [] h = "hub3" -> << >>]

TreeDevices == {"hub1", "hub2", "hub3", "cam1", "cam2", "disk"}
TreeCameras == {"cam1", "cam2"}
=============================================================================
