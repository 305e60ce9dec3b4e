---------------------------- MODULE OpenCVModules ----------------------------
(***************************************************************************)
(* The tables of recipes/opencv/4.x/conanfile.py: which options a version  *)
(* has on a system, and what _opencv_modules() says of every module.       *)
(* Versions are the minor versions of OpenCV 4; config.yml lists 4.5, 4.8  *)
(* and newer ones for this recipe.  Options that neither validate() nor    *)
(* requirements() nor the components read (cpu_baseline, nonfree, with_v4l *)
(* and the like) are left out, as are system libraries and frameworks.     *)
(***************************************************************************)
EXTENDS Naturals

BaseModules ==
    {"calib3d", "dnn", "features2d", "flann", "gapi", "highgui", "imgcodecs",
     "imgproc", "ml", "objdetect", "photo", "stitching", "video", "videoio"}

ExtraModules ==
    {"alphamat", "aruco", "barcode", "bgsegm", "bioinspired", "ccalib",
     "cudaarithm", "cudabgsegm", "cudacodec", "cudafeatures2d", "cudafilters",
     "cudaimgproc", "cudalegacy", "cudaobjdetect", "cudaoptflow", "cudastereo",
     "cudawarping", "cvv", "datasets", "dnn_objdetect", "dnn_superres", "dpm",
     "face", "freetype", "fuzzy", "hdf", "hfs", "img_hash",
     "intensity_transform", "line_descriptor", "mcc", "optflow", "ovis",
     "phase_unwrapping", "plot", "quality", "rapid", "reg", "rgbd", "saliency",
     "sfm", "shape", "stereo", "structured_light", "superres",
     "surface_matching", "text", "tracking", "videostab", "viz",
     "wechat_qrcode", "xfeatures2d", "ximgproc", "xobjdetect", "xphoto"}

CvModules == BaseModules \cup ExtraModules

(* The entries with no_option. *)
Targets == {"core", "cudev", "ippiw", "numeric", "correspondence", "multiview"}

ImageFormats ==
    {"with_avif", "with_jpeg", "with_jpegxl", "with_jpeg2000", "with_png",
     "with_openexr", "with_tiff", "with_webp", "with_gdal", "with_gdcm"}

VideoSources ==
    {"with_1394", "with_aravis", "with_ffmpeg", "with_gphoto2",
     "with_librealsense", "with_openni2", "with_va"}

WithOptions ==
    ImageFormats \cup VideoSources \cup
    {"parallel", "with_ipp", "with_armpl", "with_eigen", "with_lapack",
     "with_opencl", "with_cuda", "with_cublas", "with_cufft", "with_itt",
     "with_protobuf", "with_vulkan", "with_openvino", "dnn_cuda",
     "with_framebuffer", "with_gtk", "with_qt", "with_wayland", "with_quirc",
     "with_gstreamer", "with_tesseract", "with_clp"}

CvOptions ==
    CvModules \cup WithOptions
    \cup {"shared", "world", "build_all_base", "build_all_contrib"}

ValuesOf(o) ==
    CASE o = "parallel" -> {"False", "tbb", "openmp"}
      [] o = "with_ipp" -> {"False", "intel-ipp", "opencv-icv"}
      [] o = "with_jpeg2000" -> {"False", "jasper", "openjpeg"}
      [] OTHER -> {"False", "True"}

Systems == {"Linux", "Macos", "Windows", "Android", "iOS"}

(* A mutant: parallel is taken for a switch.                               *)
DefaultOfSwitch(v, os, o) ==
    CASE o \in {"calib3d", "features2d", "flann", "imgcodecs", "imgproc",
                "photo", "stitching", "video", "with_eigen", "with_qt",
                "with_jpeg", "with_png", "with_tiff", "with_webp",
                "with_tesseract", "parallel"} -> "True"
      [] OTHER -> "False"

(* default_options, of which those for with_gtk and with_ffmpeg are set by *)
(* config_options(). *)
DefaultOf(v, os, o) ==
    CASE o \in {"calib3d", "features2d", "flann", "imgcodecs", "imgproc",
                "photo", "stitching", "video", "with_eigen", "with_qt",
                "with_jpeg", "with_png", "with_tiff", "with_webp",
                "with_tesseract"} -> "True"
      [] o = "parallel" -> "openmp"
      [] o = "with_ffmpeg" -> IF os = "Android" THEN "False" ELSE "True"
      [] o = "with_gtk" -> IF os = "Linux" /\ v < 7 THEN "True" ELSE "False"
      [] OTHER -> "False"

(* The options that config_options() deletes. *)
Unavailable(v, os, arm) ==
    (IF os # "Linux" THEN {"with_gtk", "with_va"} ELSE {})
    \cup (IF os \in {"Android", "iOS"} THEN {"with_opencl", "with_gstreamer"} ELSE {})
    \cup (IF os = "iOS"
          THEN {"with_ffmpeg", "with_jpeg2000", "with_tiff", "superres"} ELSE {})
    \cup (IF os \in {"Android", "Windows", "iOS"}
          THEN {"with_1394", "with_aravis", "with_gphoto2", "with_openni2"} ELSE {})
    \cup (IF v < 7 \/ os # "Linux" THEN {"with_wayland"} ELSE {})
    \cup (IF v < 8 THEN {"with_avif"} ELSE {"barcode"})
    \cup (IF v < 11 THEN {"with_jpegxl"} ELSE {})
    \cup (IF v < 11 \/ os # "Linux" THEN {"with_framebuffer"} ELSE {})
    \cup (IF v < 14 \/ os # "Linux" \/ ~arm THEN {"with_armpl"} ELSE {})
-----------------------------------------------------------------------------
(* "mandatory_options" of the main modules. *)
MandatoryOfBase(v, m) ==
    CASE m = "calib3d" -> {"features2d", "flann", "imgproc"}
      [] m = "dnn" -> {"imgproc"} \cup (IF v < 8 THEN {"with_protobuf"} ELSE {})
      [] m \in {"features2d", "gapi", "highgui", "imgcodecs", "photo", "video"} ->
            {"imgproc"}
      [] m = "objdetect" -> {"calib3d", "imgproc"}
      [] m = "stitching" -> {"calib3d", "features2d", "flann", "imgproc"}
      [] m = "videoio" -> {"imgcodecs", "imgproc"}
      [] OTHER -> {}

MandatoryOfCuda(v, m) ==
    CASE m = "cudaarithm" -> {}
      [] m \in {"cudabgsegm", "cudalegacy"} -> {"video"}
      [] m = "cudacodec" ->
            {"videoio"} \cup (IF v >= 7 THEN {"cudaarithm", "cudawarping"} ELSE {})
      [] m = "cudafeatures2d" -> {"features2d", "cudafilters", "cudawarping"}
      [] m = "cudafilters" -> {"imgproc", "cudaarithm"}
      [] m \in {"cudaimgproc", "cudawarping"} -> {"imgproc"}
      [] m = "cudaobjdetect" -> {"objdetect", "cudaarithm", "cudawarping"}
      [] m = "cudaoptflow" ->
            {"video", "cudaarithm", "cudaimgproc", "cudawarping", "optflow"}
      [] m = "cudastereo" -> {"calib3d"}

CudaModules ==
    {"cudaarithm", "cudabgsegm", "cudacodec", "cudafeatures2d", "cudafilters",
     "cudaimgproc", "cudalegacy", "cudaobjdetect", "cudaoptflow", "cudastereo",
     "cudawarping"}

(* "mandatory_options" of the contributed modules, from alphamat to hfs ... *)
MandatoryOfExtra(v, m) ==
    CASE m = "alphamat" -> {"with_eigen", "imgproc"}
      [] m = "aruco" ->
            {"calib3d", "imgproc"} \cup (IF v >= 7 THEN {"objdetect"} ELSE {})
      [] m \in {"barcode", "dnn_objdetect", "dnn_superres"} -> {"dnn", "imgproc"}
      [] m = "bgsegm" -> {"calib3d", "imgproc", "video"}
      [] m = "ccalib" -> {"calib3d", "features2d", "highgui", "imgproc"}
      [] m = "cvv" -> {"with_qt", "features2d", "imgproc"}
      [] m = "datasets" -> {"flann", "imgcodecs", "ml"}
      [] m = "dpm" -> {"imgproc", "objdetect"}
      [] m = "face" -> {"calib3d", "imgproc", "objdetect", "photo"}
      [] m \in {"freetype", "fuzzy", "hfs"} -> {"imgproc"}
      [] OTHER -> {}

(* ... and from img_hash to xphoto. *)
MandatoryOfMore(v, m) ==
    CASE m \in {"img_hash", "intensity_transform", "line_descriptor",
                "phase_unwrapping", "plot", "reg"} -> {"imgproc"}
      [] m = "mcc" -> {"calib3d", "dnn", "imgproc"}
      [] m = "optflow" ->
            {"calib3d", "flann", "imgcodecs", "imgproc", "video", "ximgproc"}
      [] m \in {"ovis", "rapid", "rgbd", "shape"} -> {"calib3d", "imgproc"}
      [] m = "quality" -> {"imgproc", "ml"}
      [] m = "saliency" -> {"features2d", "imgproc"}
      [] m = "sfm" ->
            {"with_eigen", "calib3d", "features2d", "imgcodecs", "xfeatures2d"}
      [] m = "stereo" -> {"features2d", "imgproc", "tracking"}
      [] m = "structured_light" -> {"calib3d", "imgproc", "phase_unwrapping"}
      [] m = "superres" -> {"imgproc", "video", "optflow"}
      [] m = "surface_matching" -> {"flann"}
      [] m = "text" -> {"dnn", "features2d", "imgproc", "ml"}
      [] m = "tracking" -> {"imgproc", "video"}
      [] m = "videostab" -> {"calib3d", "features2d", "imgproc", "photo", "video"}
      [] m = "wechat_qrcode" ->
            {"dnn", "imgproc"} \cup (IF v >= 7 THEN {"objdetect"} ELSE {})
      [] m = "xfeatures2d" -> {"calib3d", "features2d", "imgproc"}
      [] m = "ximgproc" -> {"calib3d", "imgcodecs", "imgproc", "video"}
      [] m = "xobjdetect" -> {"imgcodecs", "imgproc", "objdetect"}
      [] m = "xphoto" -> {"imgproc", "photo"}
      [] OTHER -> {}

(* The options without which module m cannot be built. *)
Mandatory(v, m) ==
    CASE m \in BaseModules -> MandatoryOfBase(v, m)
      [] m \in CudaModules -> {"with_cuda"} \cup MandatoryOfCuda(v, m)
      [] m \in ExtraModules \ CudaModules ->
            MandatoryOfExtra(v, m) \cup MandatoryOfMore(v, m)
      [] OTHER -> {}
=============================================================================
