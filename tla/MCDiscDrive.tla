---------------------------- MODULE MCDiscDrive ----------------------------
(* Small instances: DiscDrive with two discs of different track lengths, or, *)
(* the drive left alone, an image on a disc (DiscImages).                    *)
EXTENDS DiscDrive

CONSTANTS Unit, TrackBytes, MaxTrackBytes, SsdSectors, AdlSectors, ImageTracks, DiscTracks, Block, Contents, Files, Images, MaxSteps
VARIABLES disc, file, dirty, want, steps
images == <<disc, file, dirty, want, steps>>
Image == INSTANCE DiscImages

OneProtected == <<"mutable", "protected">>

\* Side 1 of disc 1 has short tracks; without a disc a track has two bytes.
Lengths == [d \in 1..(DiscCount + 1) |-> [s \in {0, 1} |->
              [t \in 0..MaxTrack |-> IF d = DiscCount + 1 THEN 2
                                     ELSE IF s = 1 THEN d ELSE d + 2]]]

\* Contents that end like marks and like opcodes, and images of each encoding.
SomeContents == {<<0, 254>>}
SomeFiles == {<<<<251, 15>>, <<0, 254>>>>}
SomeImages == {<<"ssd">>, <<"dsd", "hfe3", "ssd">>, <<"adl", "hfe3", "adl">>, <<"dsd", "hfe3">>, <<"adl", "hfe1">>,
  <<"ssd", "scp", "hfe3">>, <<"dsd", "rfi", "ssd">>, <<"ssd", "dense", "ssd">>, <<"adl", "dfi", "adl">>, <<"ssd", "kryo", "hfe3">>}

NoImage == disc = <<>> /\ file = <<>> /\ dirty = <<>> /\ want = <<>> /\ steps = -1
InitDriveOrImage == Init /\ (NoImage \/ (drive.index = 1 /\ Image!InitImages))
DriveOrImage ==
  /\ InitDriveOrImage
  /\ [][\/ steps = -1 /\ Next /\ UNCHANGED images
        \/ steps >= 0 /\ Image!NextImages /\ UNCHANGED drive]_<<drive, images>>
  /\ WF_drive(drive.failed = "no" /\ TimerCallback)

\* A disc loaded from an image, written, saved, converted or captured and loaded
\* again holds the bytes written to it (DiscImages; nothing of the drive alone).
ImagesHoldTheDisc == steps >= 0 => Image!DiscHoldsWhatIsWritten /\ Image!ImageIsTheDisc
=============================================================================
