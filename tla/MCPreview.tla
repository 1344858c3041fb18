----------------------------- MODULE MCPreview -----------------------------
(***************************************************************************)
(* Small instances of Preview: three plain URLs, one with an image         *)
(* extension, and the fallback, which a page may also declare itself.      *)
(***************************************************************************)
EXTENDS Preview

CONSTANTS plain1, plain2, plain3, picture, ico

Declared(url, rel, size, type) == [url |-> url, rel |-> rel, size |-> size, type |-> type]

Links ==
    {Declared(plain1, "icon", 0, ""), Declared(plain2, "apple-touch-icon", 1, ""),
     Declared(picture, "icon", 1, ""), Declared(picture, "mask-icon", 0, "image"),
     Declared(ico, "shortcut", 0, ""),
     Declared(None, "icon", 0, ""), Declared(plain1, "stylesheet", 0, "")}

ManifestIcons2 ==
    {Declared(plain1, "manifest", 1, "image"), Declared(plain2, "manifest", 0, ""),
     Declared(plain3, "manifest", 0, ""),
     Declared(None, "manifest", 0, "")}

AllUrls == {plain1, plain2, plain3, picture, ico}

Pictures == {picture, ico}
============================================================================
