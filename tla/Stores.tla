------------------------------- MODULE Stores -------------------------------
(***************************************************************************)
(* The two backends of the blob port, side by side: a bucket (S3Store) and *)
(* a directory (DiskStore).  A server has one of them, which the settings  *)
(* name.  MCServices runs them beside the rest, and UploadsProofs is about *)
(* them.                                                                   *)
(***************************************************************************)
EXTENDS Integers, Sequences, FiniteSets

CONSTANTS
  Requests, Sizes, PartSize, MinPart, Uploads3, MaxDays, Failures,   \* S3Store
  DiskKeys, Writers, Contents, UploadIds, MaxSize                    \* DiskStore

VARIABLES
  which,        \* the component a behaviour is of
  bucket, multiparts, tails, request, asked, session, today, lost,   \* S3Store
  files, dirs, growing, writer                                       \* DiskStore

S3Store   == INSTANCE S3Store
DiskStore == INSTANCE DiskStore

svars == <<bucket, multiparts, tails, request, asked, session, today, lost>>
dvars == <<files, dirs, growing, writer>>
-----------------------------------------------------------------------------
\* Both backends are the port the suite describes, whatever the bucket loses,
\* wherever the process stops and whoever shares a folder (S3Store, DiskStore,
\* as steps of Store).
StoresImplementThePort ==
  [][(which = "s3" => S3Store!PortStep) /\ (which = "disk" => DiskStore!PortStep)]_<<svars, dvars>>

\* A caller is told of no byte that is not kept, what is published is the whole
\* file, and both backends read and list the same (S3Store, DiskStore).
StoresTellTheTruth ==
  /\ which = "s3" => S3Store!OffsetsAreKept /\ S3Store!PublishedIsTheFile
  /\ which = "disk" => DiskStore!FoldersHoldTheKeys /\ DiskStore!ReadsAgree
=============================================================================
