------------------------------- MODULE Encoder -------------------------------
(***************************************************************************)
(* encoding/ and platform/gpu_detector: which encoder the factory makes,   *)
(* and what its operations may return.  An encoder is its class and its    *)
(* initialized_; pictures, parameters and library handles are held exactly *)
(* while an x264 encoder is initialized, so they are left out.  Where an   *)
(* operation may fail for a reason outside this code (memory, a driver,    *)
(* the x264 library), it has both results.                                 *)
(***************************************************************************)

CONSTANTS Vendor,     \* who made the GPU
          HasNvenc    \* HAS_NVENC: whether the build found the NVENC SDK

Vendors == {"NVIDIA", "Intel", "other", "none"}
ASSUME MachineAssumption == Vendor \in Vendors /\ HasNvenc \in BOOLEAN

NoEncoder == [type |-> "none", initialized |-> FALSE]
NewEncoder(type) == [type |-> type, initialized |-> FALSE]
Encoders == [type : {"none", "kSoftwareX264", "kHardwareNVENC"}, initialized : BOOLEAN]

\* What the EncoderConfig of a video source is worth: a source without a
\* display has size 0; a large display exceeds what validateEncoderConfig takes.
Configs == {"no size", "out of range", "valid"}

DetectGpuInfo == [nvenc |-> Vendor = "NVIDIA", quicksync |-> Vendor = "Intel"]

GetBestEncoderType ==
  IF DetectGpuInfo.nvenc THEN "kHardwareNVENC"
  ELSE IF DetectGpuInfo.quicksync THEN "kHardwareQuickSync"
  ELSE "kSoftwareX264"

\* initializeNvenc, in the constructor: the D3D11 device may not be had.
NvencAvailable == IF HasNvenc THEN BOOLEAN ELSE {FALSE}

\* createEncoder(): there is no QuickSync encoder, and what NVENC cannot do x264
\* does.
CreatedEncoders ==
  CASE GetBestEncoderType = "kSoftwareX264" -> {NewEncoder("kSoftwareX264")}
    [] GetBestEncoderType = "kHardwareNVENC" ->
         {NewEncoder(IF available THEN "kHardwareNVENC" ELSE "kSoftwareX264") :
            available \in NvencAvailable}
    [] GetBestEncoderType = "kHardwareQuickSync" -> {NewEncoder("kSoftwareX264")}
    [] OTHER -> {NoEncoder}

ValidateEncoderConfig(config) == config = "valid"

\* The library may not know the preset or the profile.
X264ApplyConfig(config) == IF ValidateEncoderConfig(config) THEN BOOLEAN ELSE {FALSE}

\* The pictures may not be allocated, the library may not open the encoder; all
\* that was acquired is released again, so that a later call starts afresh.
X264Initialize(e, config) ==
  IF e.initialized \/ config = "no size" THEN {FALSE}
  ELSE {applied /\ opened : applied \in X264ApplyConfig(config), opened \in BOOLEAN}

\* The configuration is not looked at.
NvencInitialize(config) == {config # "no size"}

\* The library may fail, or keep the frame back; the output may not fit.
X264Encode(e) == IF e.initialized THEN BOOLEAN ELSE {FALSE}

\* The frame itself is handed on.
NvencEncode(e) == {e.initialized}

InitializeResults(e, config) ==
  IF e.type = "kHardwareNVENC" THEN NvencInitialize(config) ELSE X264Initialize(e, config)
EncodeResults(e) == IF e.type = "kHardwareNVENC" THEN NvencEncode(e) ELSE X264Encode(e)
=============================================================================
