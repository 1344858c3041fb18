------------------------------ MODULE Formats ------------------------------
(***************************************************************************)
(* What internal/convert, the engine and the web service make of an icon's *)
(* bytes: which bytes are accepted, what they can be converted to, and     *)
(* which formats the user is offered.  Bytes are abstracted to what those  *)
(* decisions look at; every caller has already cut them at MaxIconBody.    *)
(***************************************************************************)

Raster == {"png", "jpg", "gif", "webp"}
Passthrough == {"svg", "ico"}
Sniffed == Raster \cup Passthrough

\* magic: what SniffFormat says ("" for anything else).  sound: the XML, the
\* ICO directory or the pixel data parse.  small: the picture is within
\* MaxImageDimension and MaxImagePixels.  blank: the first frame of a GIF may
\* have no pixels; it decodes, and png.Encode refuses it.  long: one side of
\* such a frame is over 512 all the same, the other 0.
Bytes == {b \in [magic : Sniffed \cup {""}, sound : BOOLEAN, small : BOOLEAN,
                 blank : BOOLEAN, long : BOOLEAN] :
            (b.blank => b.magic = "gif") /\ (b.long => b.blank)}

\* assertDecodableImageLimits and image.Decode.
Decodes(b) == b.magic \in Raster /\ b.sound /\ b.small

\* Inspect: a raster is decoded, a vector or an icon directory only parsed.
Inspects(b) ==
    \/ (b.magic \in Passthrough /\ b.sound)
    \/ Decodes(b)

\* Convert: the magic bytes win over the extension of the file name, SVG and
\* ICO only pass through as themselves, rasters are decoded and encoded again.
SourceExt(b, ext) == IF b.magic # "" THEN b.magic ELSE ext

PassesThrough(b, ext, target) == {target, SourceExt(b, ext)} \cap Passthrough # {}

Converts(b, ext, target) ==
    /\ target \in {"png", "jpg", "svg", "ico"}
    /\ IF PassesThrough(b, ext, target)
       THEN b.magic = target
       ELSE Decodes(b) /\ (target = "png" => ~b.blank)

Converted(b, target) ==
    IF target \in Passthrough THEN b
    ELSE [magic |-> target, sound |-> ~b.blank, small |-> TRUE,
          blank |-> FALSE, long |-> FALSE]

\* Thumbnail scales what has a side over 512, to 512 and to 1 at least, and
\* encodes a PNG: a long blank frame becomes a thumbnail of some pixels.
Thumbnails(b) == Decodes(b) /\ (b.blank => b.long)

----------------------------------------------------------------------------
\* The engine: what it stores and answers of, and which formats it offers.
IsRaster(b) == b.magic \notin Passthrough

Stored(b) == Inspects(b) /\ (IsRaster(b) => Thumbnails(b))

AllowedFormats_All(b) == {"original", "png", "jpg"}

AllowedFormats(b) == {"original"} \cup (IF IsRaster(b) THEN {"png", "jpg"} ELSE {})

\* Exporting a stored icon inspects it again and, unless the original is
\* wanted, converts it under its own extension.
Exports(b, format) ==
    /\ Inspects(b)
    /\ format = "original" \/ (format \in {"png", "jpg"} /\ Converts(b, b.magic, format))

Exported_Labelled(b, format) == IF format = "original" THEN [b EXCEPT !.magic = format] ELSE Converted(b, format)

Exported(b, format) == IF format = "original" THEN b ELSE Converted(b, format)

----------------------------------------------------------------------------
\* The web service never sees the bytes when it offers formats: it goes by the
\* URL's suffix and the declared or probed content type, in this order.
Claims == [suffix : Sniffed \cup {"none"}, type : Sniffed \cup {"image", "none"}]

Names(claim, format) == format \in {claim.suffix, claim.type}

AllowedTypesFor_RasterFirst(claim) ==
    IF \E f \in Raster \cup {"image"} : Names(claim, f) THEN {"png", "jpg"}
    ELSE {f \in Passthrough : Names(claim, f)}

AllowedTypesFor(claim) ==
    IF Names(claim, "svg") THEN {"svg"}
    ELSE IF Names(claim, "ico") THEN {"ico"}
    ELSE IF \E f \in Raster \cup {"image"} : Names(claim, f) THEN {"png", "jpg"}
    ELSE {}

\* What the site says of the icon is true, where it says anything specific.
Honest(claim, b) == {claim.suffix, claim.type} \ {"image", "none"} = {b.magic}
=============================================================================
