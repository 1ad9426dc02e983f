---------------------------- MODULE MCFrontends ----------------------------
(***************************************************************************)
(* The images the frontends are checked on, and the names looked up.        *)
(***************************************************************************)
EXTENDS Frontends

SquashImg == INSTANCE SquashImages
RomfsImg == INSTANCE RomfsImages
CramfsImg == INSTANCE CramfsImages
UdfImg == INSTANCE UdfImages
IsoImg == INSTANCE IsoImages WITH BS <- VD_SIZE, ROOT_KEY <- <<U32 - 1, U32 - 1>>
ErofsImg == INSTANCE ErofsImages

AllImages ==
    [squashfs |-> SquashImg!Volumes, romfs |-> RomfsImg!Volumes, cramfs |-> CramfsImg!Volumes,
     udf |-> UdfImg!Volumes, iso9660 |-> IsoImg!Volumes, erofs |-> ErofsImg!Volumes]
Only(fmt, images) == [f \in DOMAIN AllImages |-> IF f = fmt THEN images ELSE {}]
TamperedImages == Only("erofs", ErofsImg!Tampered)
ShortPageImages == Only("cramfs", CramfsImg!ShortPage)
AllNames ==
    [squashfs |-> {"d", "zz"}, romfs |-> {"h", "zz"}, cramfs |-> {<<"d">>, <<"z">>},
     udf |-> {"h", "zz"}, iso9660 |-> {<<"a">>, <<"l">>, <<"A">>}, erofs |-> {<<"d">>, <<"z">>}]
=============================================================================
